---- MODULE Spec2Model ----
(***************************************************************************)
(* The learning-management backend as a state machine over its document    *)
(* store: the Course / Chapter / Lesson hierarchy with positions, the      *)
(* Enrollment and LessonProgress collections, the user records' reference  *)
(* lists, and the HTTP handlers that read and write them.                  *)
(*                                                                         *)
(* Spec, SpecEnroll, SpecLearn, SpecRollup                                 *)
(*           every request runs to completion before the next one starts   *)
(*           (non-overlapping requests): one action per handler.           *)
(* SpecConcEnroll, SpecConcProgress                                        *)
(*           enroll and setCompletion requests run as processes that       *)
(*           interleave at the granularity of one awaited store operation. *)
(***************************************************************************)
EXTENDS Integers, Sequences, FiniteSets, TLC

\* ---------------------------------------------------------------- bounds
\* How many documents of each collection are ever created (ids are never
\* reused, as ObjectIds are not), how many users exist, how many requests
\* may be in flight at once.
MaxCourses == 2
MaxChapters == 3
MaxLessons == 3
MaxEnrollments == 2
MaxProgress == 2
NumUsers == 2
NumProcs == 2
\* The catalogue of the progress specifications.
LearnChapters == 2
LearnLessons == 2
ConcCourses == 1
ConcChapters == 1
\* The courses of the slug specification.
SlugCourses == 3
\* The lessons of the slug lookup specification.
ViewLessons == 1

VARIABLES
  courses,      \* collection "courses":        id -> [price, chapters, slug, status]
  chapters,     \* collection "chapters":       id -> [course, position, lessons]
  lessons,      \* collection "lessons":        id -> [chapter, position, lessonProgress]
  enrollments,  \* collection "enrollments":    id -> [user, course, amount, status]
  progress,     \* collection "lessonProgress": id -> [user, lesson, completed]
  users,        \* collection "user":           id -> [enrollments, lessonProgress]
  nextId,       \* per collection, the number of ids handed out so far
  resp,         \* the response of the request that completed last
  procs         \* SpecConc: the requests in flight, one per process

vars == <<courses, chapters, lessons, enrollments, progress, users, nextId, resp, procs>>
db == <<courses, chapters, lessons, enrollments, progress, users>>

Users == 1..NumUsers
NoUser == 0
Procs == 1..NumProcs
Prices == {10}
EnrollmentEnum == {"pending", "active", "cancelled"}
StatusInputs == EnrollmentEnum \cup {"completed"}

CourseIds == 1..MaxCourses
SlugCourseIds == 1..SlugCourses
ChapterIds == 1..MaxChapters
LessonIds == 1..MaxLessons
EnrollmentIds == 1..MaxEnrollments
ProgressIds == 1..MaxProgress

\* ------------------------------------------------------- store primitives
Insert(coll, id, doc) == (id :> doc) @@ coll
Remove(coll, ids) == [x \in DOMAIN coll \ ids |-> coll[x]]
Pull(seq, x) == SelectSeq(seq, LAMBDA y : y # x)
InSeq(seq, x) == \E i \in 1..Len(seq) : seq[i] = x
AddToSet(seq, x) == IF InSeq(seq, x) THEN seq ELSE Append(seq, x)

\* Chapter.find({ course }) / Chapter.countDocuments({ course })
ChaptersOf(chs, c) == {x \in DOMAIN chs : chs[x].course = c}
\* Lesson.find({ chapter }) / Lesson.countDocuments({ chapter })
LessonsOf(ls, ch) == {x \in DOMAIN ls : ls[x].chapter = ch}

\* Lesson.deleteMany({ chapter: { $in: chs } }): a query delete, no document
\* middleware runs, so the lessons' progress rows stay.
LessonDeleteManySkipped(ls, chs) == ls
LessonDeleteMany(ls, chs) == Remove(ls, {x \in DOMAIN ls : ls[x].chapter \in chs})
\* Chapter.deleteMany({ course })
ChapterDeleteMany(chs, c) == Remove(chs, ChaptersOf(chs, c))
\* Course.findByIdAndUpdate(c, { $pull: { chapters: ch } })
CoursePullSkipped(cs, c, ch) == cs
CoursePullChapter(cs, c, ch) ==
  IF c \in DOMAIN cs THEN [cs EXCEPT ![c].chapters = Pull(@, ch)] ELSE cs
\* Chapter.findByIdAndUpdate(ch, { $pull: { lessons: l } })
ChapterPullLesson(chs, ch, l) ==
  IF ch \in DOMAIN chs THEN [chs EXCEPT ![ch].lessons = Pull(@, l)] ELSE chs
\* LessonProgress.deleteMany({ lesson: l })
ProgressDeleteSkipped(ps, l) == ps
ProgressDeleteMany(ps, l) == Remove(ps, {x \in DOMAIN ps : ps[x].lesson = l})

\* The response: the handler, the HTTP status, and the document the request
\* acted on (0 when it acted on none).
Respond(op, status, id) ==
  resp' = [op |-> op, status |-> status, id |-> id]

\* s3FileDelete(key): the delete command is sent inside try/catch and a failure
\* is only logged, so the call never throws into its caller. s3Up says whether
\* the object store answers the command.
S3FileDeleteRethrows(s3Up) == ~s3Up
S3FileDeleteThrows(s3Up) == FALSE
\* The response of a delete that ran to its end, and what s3FileDelete did.
RespondMedia(op, id, s3Up) ==
  resp' = [op |-> op, status |-> 200, id |-> id,
           media |-> IF s3Up THEN "deleted" ELSE "logged"]

\* A request in flight: where it stands, who sent it for which document, and
\* what its handler holds in local variables; status is set when it responds.
Idle ==
  [pc |-> "idle", op |-> "none", user |-> NoUser, arg |-> 0, completed |-> FALSE,
   local |-> 0, status |-> 0]
Quiescent == \A p \in Procs : procs[p].pc \in {"idle", "done"}
NoneStarted == \A p \in Procs : procs[p].pc = "idle"

TypeOK ==
  /\ DOMAIN courses \subseteq SlugCourseIds
  /\ DOMAIN chapters \subseteq ChapterIds
  /\ DOMAIN lessons \subseteq LessonIds
  /\ DOMAIN enrollments \subseteq EnrollmentIds
  /\ DOMAIN progress \subseteq ProgressIds
  /\ DOMAIN users = Users

Init ==
  /\ courses = <<>>
  /\ chapters = <<>>
  /\ lessons = <<>>
  /\ enrollments = <<>>
  /\ progress = <<>>
  /\ users = [u \in Users |-> [enrollments |-> <<>>, lessonProgress |-> <<>>]]
  /\ nextId = [course |-> 0, chapter |-> 0, lesson |-> 0, enrollment |-> 0, progress |-> 0]
  /\ resp = [op |-> "none", status |-> 0, id |-> 0]
  /\ procs = [p \in Procs |-> Idle]

\* ------------------------------------------------------------ CourseController
\* slugify(text, { lower: true, strict: true }) on a text given as its
\* sequence of characters: the replacement character "-" counts as a space,
\* strict drops every character that is neither a letter, a digit nor a
\* space, the ends are trimmed, each run of spaces becomes one "-", and
\* letters are lowercased.
Letters == {"a", "c"}
Capitals == {"A", "C"}
Digits == {"1", "2"}
Spaces == {" ", "-"}
ToLower(ch) ==
  CASE ch = "A" -> "a" [] ch = "C" -> "c" [] ch = "I" -> "i" [] ch = "P" -> "p"
    [] OTHER -> ch
StrictKeep(text) ==
  SelectSeq(text, LAMBDA ch : ch \in Letters \cup Capitals \cup Digits \cup Spaces)
RECURSIVE TrimStart(_)
TrimStart(text) ==
  IF text # <<>> /\ Head(text) \in Spaces THEN TrimStart(Tail(text)) ELSE text
RECURSIVE TrimEnd(_)
TrimEnd(text) ==
  IF text # <<>> /\ text[Len(text)] \in Spaces
  THEN TrimEnd(SubSeq(text, 1, Len(text) - 1)) ELSE text
RECURSIVE ReplaceSpaces(_)
ReplaceSpaces(text) ==
  IF text = <<>> THEN <<>>
  ELSE IF Head(text) \in Spaces
  THEN <<"-">> \o ReplaceSpaces(TrimStart(text))
  ELSE <<Head(text)>> \o ReplaceSpaces(Tail(text))
Slugify(text) ==
  LET slug == ReplaceSpaces(TrimEnd(TrimStart(StrictKeep(text))))
  IN [i \in 1..Len(slug) |-> ToLower(slug[i])]

\* `${slug}-${Date.now()}`
Suffixed(slug, now) == slug \o <<"-", ToString(now)>>

\* Course.findOne({ slug, _id: { $ne: self } }); self is 0 on create.
SlugTaken(cs, slug, self) == \E x \in DOMAIN cs \ {self} : cs[x].slug = slug
\* The unique index of courseSchema.slug: a write that would give two
\* courses one slug fails with error code 11000.
SlugIndexAbsent(cs, slug, self) == TRUE
SlugIndexAllows(cs, slug, self) == ~\E x \in DOMAIN cs \ {self} : cs[x].slug = slug
\* finalSlug: the candidate, suffixed when a course already uses it.
FinalSlug(cs, text, self, now) ==
  IF SlugTaken(cs, Slugify(text), self) THEN Suffixed(Slugify(text), now) ELSE Slugify(text)

CourseStatus == {"Draft", "Published", "Archived"}

\* create: required fields, non-negative price, the slug, then the insert;
\* an empty slug fails the schema's required validator (400) and a slug in
\* use fails the unique index (11000 -> 400).
CreateCourseFrom(price, fieldsOk, text, status, now) ==
  /\ IF ~fieldsOk \/ price < 0
     THEN /\ Respond("createCourse", 400, 0)
          /\ UNCHANGED <<courses, nextId>>
     ELSE LET id == nextId.course + 1
              finalSlug == FinalSlug(courses, text, 0, now)
          IN IF finalSlug = <<>> \/ ~SlugIndexAllows(courses, finalSlug, 0)
             THEN /\ Respond("createCourse", 400, 0)
                  /\ UNCHANGED <<courses, nextId>>
             ELSE /\ id <= SlugCourses
                  /\ courses' = Insert(courses, id,
                        [price |-> price, duration |-> 1, chapters |-> <<>>,
                         slug |-> finalSlug, status |-> status])
                  /\ nextId' = [nextId EXCEPT !.course = id]
                  /\ Respond("createCourse", 201, id)
  /\ UNCHANGED <<chapters, lessons, enrollments, progress, users, procs>>

\* A create request whose title no other request uses ("C1", "C2", ...) and
\* whose status is left to the schema default.
OwnTitle(n) == <<"C", ToString(n)>>
CreateCourse(price, fieldsOk) ==
  /\ CreateCourseFrom(price, fieldsOk, OwnTitle(nextId.course + 1), "Draft", 1)
  /\ nextId'.course <= MaxCourses

\* update: the body's fields are optional, given here as sets of at most one
\* value (a text of no characters is an absent slug). A key the body does not
\* carry is not in the update document, so its path keeps the stored value.
\* The handler's own checks on price and duration come first; the validators
\* run before the write, so an invalid body is answered 400 whether or not the
\* course exists.
PresentIgnored(given, old) == old
Present(given, old) == IF given = {} THEN old ELSE CHOOSE v \in given : TRUE

UpdateCourseBody(id, prices, durations, text, statuses, now) ==
  /\ IF (\E p \in prices : p < 0) \/ (\E d \in durations : d < 0)
     THEN /\ Respond("updateCourse", 400, 0)
          /\ UNCHANGED courses
     ELSE LET newSlug == FinalSlug(courses, text, id, now)
          IN IF text # <<>> /\ newSlug = <<>>
             THEN /\ Respond("updateCourse", 400, 0)
                  /\ UNCHANGED courses
             ELSE IF id \notin DOMAIN courses
             THEN /\ Respond("updateCourse", 404, 0)
                  /\ UNCHANGED courses
             ELSE IF text # <<>> /\ ~SlugIndexAllows(courses, newSlug, id)
             THEN /\ Respond("updateCourse", 400, 0)
                  /\ UNCHANGED courses
             ELSE /\ courses' = [courses EXCEPT ![id] =
                       [@ EXCEPT !.price = Present(prices, @),
                                 !.duration = Present(durations, @),
                                 !.slug = IF text = <<>> THEN @ ELSE newSlug,
                                 !.status = Present(statuses, @)]]
                  /\ Respond("updateCourse", 200, id)
  /\ UNCHANGED <<chapters, lessons, enrollments, progress, users, nextId, procs>>

\* An update request whose body carries no duration.
UpdateCourse(id, prices, text, statuses, now) ==
  UpdateCourseBody(id, prices, {}, text, statuses, now)

\* delete: for each chapter of the course delete its lessons, delete the
\* chapters, then course.deleteOne(), whose pre-hook repeats the cascade.
CourseDeleteLessonsSkipped(ls, chs, c) == ls
CourseDeleteLessons(ls, chs, c) == LessonDeleteMany(ls, ChaptersOf(chs, c))

\* The media keys of the lessons are deleted before the first write, the
\* course's fileKey after the chapters are gone.
DeleteCourseMedia(id, s3Up) ==
  /\ IF id \notin DOMAIN courses
     THEN /\ Respond("deleteCourse", 404, 0)
          /\ UNCHANGED <<courses, chapters, lessons>>
     ELSE IF S3FileDeleteThrows(s3Up)
     THEN /\ Respond("deleteCourse", 500, 0)
          /\ IF CourseDeleteLessons(lessons, chapters, id) # lessons
             THEN UNCHANGED <<courses, chapters, lessons>>
             ELSE /\ chapters' = ChapterDeleteMany(chapters, id)
                  /\ UNCHANGED <<courses, lessons>>
     ELSE LET ls1 == CourseDeleteLessons(lessons, chapters, id)
              chs1 == ChapterDeleteMany(chapters, id)
              \* pre("deleteOne") document middleware of the course
              ls2 == LessonDeleteMany(ls1, ChaptersOf(chs1, id))
              chs2 == ChapterDeleteMany(chs1, id)
          IN /\ lessons' = ls2
             /\ chapters' = chs2
             /\ courses' = Remove(courses, {id})
             /\ RespondMedia("deleteCourse", id, s3Up)
  /\ UNCHANGED <<enrollments, progress, users, nextId, procs>>

\* A delete request served while the object store answers.
DeleteCourse(id) == DeleteCourseMedia(id, TRUE)

\* ----------------------------------------------------------- ChapterController
\* create: position = countDocuments({ course }) + 1, then push to the course.
ChapterNextPositionGlobal(chs, c) == Cardinality(DOMAIN chs) + 1
ChapterNextPosition(chs, c) == Cardinality(ChaptersOf(chs, c)) + 1

CreateChapter(c, titleOk) ==
  /\ IF ~titleOk
     THEN /\ Respond("createChapter", 400, 0)
          /\ UNCHANGED <<courses, chapters, nextId>>
     ELSE IF c \notin DOMAIN courses
     THEN /\ Respond("createChapter", 404, 0)
          /\ UNCHANGED <<courses, chapters, nextId>>
     ELSE LET id == nextId.chapter + 1 IN
          /\ id <= MaxChapters
          /\ chapters' = Insert(chapters, id,
                [course |-> c, position |-> ChapterNextPosition(chapters, c),
                 lessons |-> <<>>])
          /\ courses' = [courses EXCEPT ![c].chapters = Append(@, id)]
          /\ nextId' = [nextId EXCEPT !.chapter = id]
          /\ Respond("createChapter", 201, id)
  /\ UNCHANGED <<lessons, enrollments, progress, users, procs>>

\* The results Chapter.find({ course }).sort({ position: 1 }) can return: the
\* chapters of the course in non-decreasing position; the order among equal
\* positions is not fixed by the store.
SortedByPosition(chs, c) ==
  LET S == ChaptersOf(chs, c)
      n == Cardinality(S)
  IN {ord \in [1..n -> S] :
        /\ \A i, j \in 1..n : i # j => ord[i] # ord[j]
        /\ \A i, j \in 1..n : i < j => chs[ord[i]].position <= chs[ord[j]].position}

RenumberSkipped(chs, ord) == chs
\* for (i = 0; i < remaining.length; i++) remaining[i].position = i + 1; save()
Renumber(chs, ord) ==
  [x \in DOMAIN chs |->
     IF \E i \in 1..Len(ord) : ord[i] = x
     THEN [chs[x] EXCEPT !.position = CHOOSE i \in 1..Len(ord) : ord[i] = x]
     ELSE chs[x]]

\* delete: lessons of the chapter, the course's reference, the chapter itself
\* (its pre-hook repeats both), then the renumbering of the remaining chapters.
DeleteChapterMedia(id, s3Up) ==
  /\ IF id \notin DOMAIN chapters
     THEN /\ Respond("deleteChapter", 404, 0)
          /\ UNCHANGED <<courses, chapters, lessons>>
     ELSE IF S3FileDeleteThrows(s3Up)
     THEN /\ Respond("deleteChapter", 500, 0)
          /\ UNCHANGED <<courses, chapters, lessons>>
     ELSE LET c == chapters[id].course
              ls1 == LessonDeleteMany(lessons, {id})
              cs1 == CoursePullChapter(courses, c, id)
              \* pre("deleteOne") document middleware of the chapter
              ls2 == LessonDeleteMany(ls1, {id})
              cs2 == CoursePullChapter(cs1, c, id)
              chs1 == Remove(chapters, {id})
          IN \E ord \in SortedByPosition(chs1, c) :
               /\ lessons' = ls2
               /\ courses' = cs2
               /\ chapters' = Renumber(chs1, ord)
               /\ RespondMedia("deleteChapter", id, s3Up)
  /\ UNCHANGED <<enrollments, progress, users, nextId, procs>>

DeleteChapter(id) == DeleteChapterMedia(id, TRUE)

\* ------------------------------------------------------------ LessonController
\* create: position = countDocuments({ chapter }) + 1, then push to the chapter.
LessonNextPosition(ls, ch) == Cardinality(LessonsOf(ls, ch)) + 1

CreateLesson(ch, titleOk) ==
  /\ IF ~titleOk
     THEN /\ Respond("createLesson", 400, 0)
          /\ UNCHANGED <<chapters, lessons, nextId>>
     ELSE IF ch \notin DOMAIN chapters
     THEN /\ Respond("createLesson", 404, 0)
          /\ UNCHANGED <<chapters, lessons, nextId>>
     ELSE LET id == nextId.lesson + 1 IN
          /\ id <= MaxLessons
          /\ lessons' = Insert(lessons, id,
                [chapter |-> ch, position |-> LessonNextPosition(lessons, ch),
                 lessonProgress |-> <<>>])
          /\ chapters' = [chapters EXCEPT ![ch].lessons = Append(@, id)]
          /\ nextId' = [nextId EXCEPT !.lesson = id]
          /\ Respond("createLesson", 201, id)
  /\ UNCHANGED <<courses, enrollments, progress, users, procs>>

LessonShiftSkipped(ls, ch, p) == ls
LessonShiftAnyChapter(ls, ch, p) ==
  [x \in DOMAIN ls |->
     IF ls[x].position > p THEN [ls[x] EXCEPT !.position = @ - 1] ELSE ls[x]]
\* Lesson.updateMany({ chapter, position: { $gt: p } }, { $inc: { position: -1 } })
LessonShiftDown(ls, ch, p) ==
  [x \in DOMAIN ls |->
     IF ls[x].chapter = ch /\ ls[x].position > p
     THEN [ls[x] EXCEPT !.position = @ - 1]
     ELSE ls[x]]

\* delete: pull from the chapter, lesson.deleteOne() (its pre-hook pulls again
\* and deletes the lesson's progress rows), then the bulk decrement.
DeleteLessonMedia(id, s3Up) ==
  /\ IF id \notin DOMAIN lessons
     THEN /\ Respond("deleteLesson", 404, 0)
          /\ UNCHANGED <<chapters, lessons, progress>>
     ELSE IF S3FileDeleteThrows(s3Up)
     THEN /\ Respond("deleteLesson", 500, 0)
          /\ UNCHANGED <<chapters, lessons, progress>>
     ELSE LET ch == lessons[id].chapter
              deletedPosition == lessons[id].position
              chs1 == ChapterPullLesson(chapters, ch, id)
              \* pre("deleteOne") document middleware of the lesson
              chs2 == ChapterPullLesson(chs1, ch, id)
              ps1 == ProgressDeleteMany(progress, id)
              ls1 == Remove(lessons, {id})
          IN /\ chapters' = chs2
             /\ progress' = ps1
             /\ lessons' = LessonShiftDown(ls1, ch, deletedPosition)
             /\ RespondMedia("deleteLesson", id, s3Up)
  /\ UNCHANGED <<courses, enrollments, users, nextId, procs>>

DeleteLesson(id) == DeleteLessonMedia(id, TRUE)

\* update (chapters and lessons): the request body, with updatedAt, is the
\* update document of findByIdAndUpdate with runValidators. The body may name
\* any path of the schema, position and the parent reference included; the
\* update validators run before the store is touched, and a failure is
\* answered 500 by the catch. A request gives each field as a set of at most
\* one value, empty when the field is absent.
ChapterPositionValid(pos) == pos >= 1      \* position: { min: 1 }
LessonPositionValid(pos) == TRUE           \* position: no min or max
FieldOr(given, old) == IF given = {} THEN old ELSE CHOOSE v \in given : TRUE

UpdateChapter(id, positions, parents) ==
  /\ IF \E pos \in positions : ~ChapterPositionValid(pos)
     THEN /\ Respond("updateChapter", 500, 0)
          /\ UNCHANGED chapters
     ELSE IF id \notin DOMAIN chapters
     THEN /\ Respond("updateChapter", 404, 0)
          /\ UNCHANGED chapters
     ELSE /\ chapters' = [chapters EXCEPT
                            ![id].position = FieldOr(positions, @),
                            ![id].course = FieldOr(parents, @)]
          /\ Respond("updateChapter", 200, id)
  /\ UNCHANGED <<courses, lessons, enrollments, progress, users, nextId, procs>>

UpdateLesson(id, positions, parents) ==
  /\ IF \E pos \in positions : ~LessonPositionValid(pos)
     THEN /\ Respond("updateLesson", 500, 0)
          /\ UNCHANGED lessons
     ELSE IF id \notin DOMAIN lessons
     THEN /\ Respond("updateLesson", 404, 0)
          /\ UNCHANGED lessons
     ELSE /\ lessons' = [lessons EXCEPT
                           ![id].position = FieldOr(positions, @),
                           ![id].chapter = FieldOr(parents, @)]
          /\ Respond("updateLesson", 200, id)
  /\ UNCHANGED <<courses, chapters, enrollments, progress, users, nextId, procs>>

\* -------------------------------------------------------- EnrollmentController
\* Enrollment.findOne({ user, course })
EnrollmentsOf(es, u, c) == {x \in DOMAIN es : es[x].user = u /\ es[x].course = c}
\* The unique index { user: 1, course: 1 }: an insert of a second document for
\* the pair is rejected with error code 11000.
UniqueIndexAbsent(es, u, c) == TRUE
UniqueIndexAllows(es, u, c) ==
  ~\E x \in DOMAIN es : es[x].user = u /\ es[x].course = c
\* The two places that detect a duplicate: the findOne before the insert and
\* the duplicate-key error (code 11000) of the insert.
EnrollConflictActiveOnly(es, u, c) ==
  \E x \in DOMAIN es : es[x].user = u /\ es[x].course = c /\ es[x].status = "active"
EnrollConflict(es, u, c) ==
  EnrollmentsOf(es, u, c) # {} \/ ~UniqueIndexAllows(es, u, c)

\* create: session, course, the existence check, the insert (amount = the
\* course's price, status active), then the push to the user's list.
\* amount: course.price, read from the course document found for the request.
AmountFree(course) == 0
AmountSnapshot(course) == course.price

Enroll(u, c) ==
  /\ IF u = NoUser
     THEN /\ Respond("enroll", 401, 0)
          /\ UNCHANGED <<enrollments, users, nextId>>
     ELSE IF c \notin DOMAIN courses
     THEN /\ Respond("enroll", 404, 0)
          /\ UNCHANGED <<enrollments, users, nextId>>
     ELSE IF EnrollConflict(enrollments, u, c)
     THEN /\ Respond("enroll", 400, 0)
          /\ UNCHANGED <<enrollments, users, nextId>>
     ELSE LET id == nextId.enrollment + 1 IN
          /\ id <= MaxEnrollments
          /\ enrollments' = Insert(enrollments, id,
                [user |-> u, course |-> c, amount |-> AmountSnapshot(courses[c]),
                 status |-> "active"])
          /\ users' = [users EXCEPT ![u].enrollments = Append(@, id)]
          /\ nextId' = [nextId EXCEPT !.enrollment = id]
          /\ Respond("enroll", 201, id)
  /\ UNCHANGED <<courses, chapters, lessons, progress, procs>>

\* update: findByIdAndUpdate with runValidators; a status outside the schema's
\* enum fails validation before the store is touched.
UpdateEnrollment(id, status) ==
  /\ IF status \notin EnrollmentEnum
     THEN /\ Respond("updateEnrollment", 500, 0)
          /\ UNCHANGED enrollments
     ELSE IF id \notin DOMAIN enrollments
     THEN /\ Respond("updateEnrollment", 404, 0)
          /\ UNCHANGED enrollments
     ELSE /\ enrollments' = [enrollments EXCEPT ![id].status = status]
          /\ Respond("updateEnrollment", 200, id)
  /\ UNCHANGED <<courses, chapters, lessons, progress, users, nextId, procs>>

\* updateProgress: the update document names progress and, from 100 on,
\* status "completed" and completedAt. Mongoose casts it against the schema
\* (strict mode drops the paths the schema does not declare), runs the
\* validators of the paths that remain, and only then writes.
EnrollmentPaths == {"user", "course", "amount", "status"}
ProgressUpdate(p) ==
  IF p >= 100
  THEN [progress |-> p, status |-> "completed", completedAt |-> "now"]
  ELSE [progress |-> p]
StrictCast(upd) == [f \in DOMAIN upd \cap EnrollmentPaths |-> upd[f]]
UpdateValid(upd) == "status" \in DOMAIN upd => upd["status"] \in EnrollmentEnum
ApplyUpdate(doc, upd) ==
  [f \in DOMAIN doc |-> IF f \in DOMAIN upd THEN upd[f] ELSE doc[f]]

ProgressRangeUnchecked(p) == FALSE
ProgressOutOfRange(p) == p < 0 \/ p > 100

UpdateProgress(id, p) ==
  /\ IF ProgressOutOfRange(p)
     THEN /\ Respond("updateProgress", 400, 0)
          /\ UNCHANGED enrollments
     ELSE IF ~UpdateValid(StrictCast(ProgressUpdate(p)))
     THEN /\ Respond("updateProgress", 500, 0)
          /\ UNCHANGED enrollments
     ELSE IF id \notin DOMAIN enrollments
     THEN /\ Respond("updateProgress", 404, 0)
          /\ UNCHANGED enrollments
     ELSE /\ enrollments' = [enrollments EXCEPT
                               ![id] = ApplyUpdate(@, StrictCast(ProgressUpdate(p)))]
          /\ Respond("updateProgress", 200, id)
  /\ UNCHANGED <<courses, chapters, lessons, progress, users, nextId, procs>>

\* delete: pull the reference from the user, then enrollment.deleteOne(); the
\* enrollment schema has no middleware.
UserPullSkipped(us, u, e) == us
UserPullEnrollment(us, u, e) ==
  IF u \in DOMAIN us THEN [us EXCEPT ![u].enrollments = Pull(@, e)] ELSE us

Unenroll(id) ==
  /\ IF id \notin DOMAIN enrollments
     THEN /\ Respond("unenroll", 404, 0)
          /\ UNCHANGED <<enrollments, users>>
     ELSE /\ users' = UserPullEnrollment(users, enrollments[id].user, id)
          /\ enrollments' = Remove(enrollments, {id})
          /\ Respond("unenroll", 200, id)
  /\ UNCHANGED <<courses, chapters, lessons, progress, nextId, procs>>

\* checkEnrollment: Enrollment.findOne({ user, course, status: { $in:
\* ["active", "completed"] } }); the response carries isEnrolled and the
\* record found (id 0 for null).
CheckStatusAny == EnrollmentEnum \cup {"completed"}
CheckStatus == {"active", "completed"}
CheckFind(es, u, c) ==
  {x \in DOMAIN es : es[x].user = u /\ es[x].course = c /\ es[x].status \in CheckStatus}

CheckEnrollment(u, c) ==
  /\ IF u = NoUser
     THEN Respond("checkEnrollment", 401, 0)
     ELSE \E found \in IF CheckFind(enrollments, u, c) = {} THEN {0}
                        ELSE CheckFind(enrollments, u, c) :
            resp' = [op |-> "checkEnrollment", status |-> 200, id |-> found,
                     user |-> u, course |-> c, isEnrolled |-> found # 0]
  /\ UNCHANGED <<courses, chapters, lessons, enrollments, progress, users, nextId, procs>>

\* getBySlug (GET /slug/:slug): the course with that slug or 404; then the
\* caller's enrollment with status "active"; without a session or without such
\* an enrollment the course is read again with status "Published" and its
\* lessons are populated with select "title  position"; with one, it is read
\* again with status "Published" and whole lessons. The second read's result
\* is the response body, null (id 0) when that read finds nothing.
LessonPaths ==
  {"_id", "position", "title", "description", "thumbnailKey", "videoKey",
   "chapter", "lessonProgress"}
\* select: "title  position": the paths named, and _id
ReducedSelect(paths) == {"_id"} \cup (paths \cap {"title", "position"})
SeqRange(seq) == {seq[i] : i \in 1..Len(seq)}
BySlug(cs, slug) == {x \in DOMAIN cs : cs[x].slug = slug}
BySlugAnyStatus(cs, slug) == {x \in DOMAIN cs : cs[x].slug = slug}
BySlugPublished(cs, slug) ==
  {x \in DOMAIN cs : cs[x].slug = slug /\ cs[x].status = "Published"}
\* Enrollment.findOne({ course, user: session?.user?.id, status: "active" })
ActiveEnrollment(es, u, c) ==
  \E x \in DOMAIN es : es[x].user = u /\ es[x].course = c /\ es[x].status = "active"
\* populate chapters, and in each chapter its lessons: the documents that the
\* reference lists name and that exist.
PopulatedLessons(c) ==
  {l \in DOMAIN lessons :
     \E ch \in SeqRange(courses[c].chapters) \cap DOMAIN chapters :
        l \in SeqRange(chapters[ch].lessons)}

GetBySlug(u, slug) ==
  /\ IF BySlug(courses, slug) = {}
     THEN Respond("getBySlug", 404, 0)
     ELSE LET course == CHOOSE x \in BySlug(courses, slug) : TRUE
              isEnrolled == ActiveEnrollment(enrollments, u, course)
              reduced == u = NoUser \/ ~isEnrolled
          IN \E data \in IF BySlugPublished(courses, slug) = {} THEN {0}
                         ELSE BySlugPublished(courses, slug) :
               resp' = [op |-> "getBySlug", status |-> 200, id |-> data,
                        user |-> u, slug |-> slug,
                        lessons |->
                          [l \in IF data = 0 THEN {} ELSE PopulatedLessons(data) |->
                             IF reduced THEN ReducedSelect(LessonPaths)
                             ELSE LessonPaths]]
  /\ UNCHANGED <<courses, chapters, lessons, enrollments, progress, users, nextId, procs>>

\* ---------------------------------------------------- LessonProgressController
Qualifying == {"active", "completed"}
QualifyingEnrollmentsAnyStatus(es, u, c) ==
  {x \in DOMAIN es : es[x].user = u /\ es[x].course = c}
\* Enrollment.findOne({ user, course, status: { $in: ["active", "completed"] } })
QualifyingEnrollments(es, u, c) ==
  {x \in DOMAIN es : es[x].user = u /\ es[x].course = c /\ es[x].status \in Qualifying}
\* LessonProgress.find({ user, lesson: { $in: ls } })
ProgressRecords(ps, u, ls) ==
  {x \in DOMAIN ps : ps[x].user = u /\ ps[x].lesson \in ls}

\* createOrUpdate: the lesson, its chapter, the enrollment check, then the
\* row found by findOne is updated, or a new row is inserted and referenced
\* from the lesson and the user ($addToSet).
SetCompletion(u, l, completed) ==
  /\ IF u = NoUser
     THEN /\ Respond("setCompletion", 401, 0)
          /\ UNCHANGED <<lessons, progress, users, nextId>>
     ELSE IF l \notin DOMAIN lessons
     THEN /\ Respond("setCompletion", 404, 0)
          /\ UNCHANGED <<lessons, progress, users, nextId>>
     ELSE IF lessons[l].chapter \notin DOMAIN chapters
     THEN /\ Respond("setCompletion", 404, 0)
          /\ UNCHANGED <<lessons, progress, users, nextId>>
     ELSE IF QualifyingEnrollments(enrollments, u, chapters[lessons[l].chapter].course) = {}
     THEN /\ Respond("setCompletion", 403, 0)
          /\ UNCHANGED <<lessons, progress, users, nextId>>
     ELSE IF ProgressRecords(progress, u, {l}) # {}
     THEN \E r \in ProgressRecords(progress, u, {l}) :
            /\ progress' = [progress EXCEPT ![r].completed = completed]
            /\ Respond("setCompletion", 200, r)
            /\ UNCHANGED <<lessons, users, nextId>>
     ELSE LET id == nextId.progress + 1 IN
          /\ id <= MaxProgress
          /\ progress' = Insert(progress, id,
                [user |-> u, lesson |-> l, completed |-> completed])
          /\ lessons' = [lessons EXCEPT ![l].lessonProgress = AddToSet(@, id)]
          /\ users' = [users EXCEPT ![u].lessonProgress = AddToSet(@, id)]
          /\ nextId' = [nextId EXCEPT !.progress = id]
          /\ Respond("setCompletion", 200, id)
  /\ UNCHANGED <<courses, chapters, enrollments, procs>>

\* Math.round((completed / total) * 100) on JavaScript numbers: a zero total
\* makes the quotient NaN (0/0) or Infinity, which is no percentage.
NotANumber == -1
JsRoundPercent(completed, total) ==
  IF total = 0 THEN NotANumber ELSE (200 * completed + total) \div (2 * total)

\* total > 0 ? Math.round((completed / total) * 100) : 0
PercentageUnguarded(completed, total) == JsRoundPercent(completed, total)
Percentage(completed, total) ==
  IF total > 0 THEN JsRoundPercent(completed, total) ELSE 0

\* progressRecords.filter((p) => p.completed).length
CompletedCount(ps, rows) == Cardinality({r \in rows : ps[r].completed})

Stats(total, completed) ==
  [totalLessons |-> total, completedLessons |-> completed,
   completionPercentage |-> Percentage(completed, total)]

\* getChapterProgress: the chapter's lessons, the user's rows for them.
ChapterStats(u, ch) ==
  LET ls == LessonsOf(lessons, ch)
      rows == ProgressRecords(progress, u, ls)
  IN Stats(Cardinality(ls), CompletedCount(progress, rows))

\* The lessons of a course: Lesson.find({ chapter: { $in: chapterIds } })
CourseLessons(c) == {x \in DOMAIN lessons : lessons[x].chapter \in ChaptersOf(chapters, c)}

\* getCourseProgress, overall stats.
CourseStats(u, c) ==
  LET ls == CourseLessons(c)
      rows == ProgressRecords(progress, u, ls)
  IN Stats(Cardinality(ls), CompletedCount(progress, rows))

\* progressMap: one entry per lesson that has rows; with several rows for a
\* lesson the entry is the row the reduce visited last.
ProgressMaps(rows) ==
  {pm \in [{progress[r].lesson : r \in rows} -> BOOLEAN] :
     \A l \in DOMAIN pm : \E r \in rows : progress[r].lesson = l /\ progress[r].completed = pm[l]}

\* getCourseProgress, the stats of one chapter of the course.
CourseChapterStats(pm, ch) ==
  LET ls == LessonsOf(lessons, ch)
  IN Stats(Cardinality(ls), Cardinality({l \in ls : l \in DOMAIN pm /\ pm[l]}))

RespondStats(op, id, u, stats) ==
  resp' = [op |-> op, status |-> 200, id |-> id, user |-> u, stats |-> stats]

GetChapterProgress(u, ch) ==
  /\ RespondStats("chapterProgress", ch, u, ChapterStats(u, ch))
  /\ UNCHANGED <<courses, chapters, lessons, enrollments, progress, users, nextId, procs>>

GetCourseProgress(u, c) ==
  /\ \E pm \in ProgressMaps(ProgressRecords(progress, u, CourseLessons(c))) :
       RespondStats("courseProgress", c, u,
         [overall |-> CourseStats(u, c),
          chapters |-> [ch \in ChaptersOf(chapters, c) |-> CourseChapterStats(pm, ch)]])
  /\ UNCHANGED <<courses, chapters, lessons, enrollments, progress, users, nextId, procs>>

\* getUserProgress with the default page and limit: one entry per active or
\* completed enrollment of the user; populate leaves enrollment.course null
\* when the course is gone, and reading its _id then throws (500).
UserEnrollments(u) ==
  {x \in DOMAIN enrollments : enrollments[x].user = u /\ enrollments[x].status \in Qualifying}

GetUserProgress(u) ==
  /\ IF \E e \in UserEnrollments(u) : enrollments[e].course \notin DOMAIN courses
     THEN Respond("userProgress", 500, 0)
     ELSE RespondStats("userProgress", 0, u,
            [e \in UserEnrollments(u) |-> 
               [course |-> enrollments[e].course,
                progress |-> CourseStats(u, enrollments[e].course)]])
  /\ UNCHANGED <<courses, chapters, lessons, enrollments, progress, users, nextId, procs>>

\* ---------------------------------------------------------------- statistics
\* { $group: { total: { $sum: "$amount" } } } over the rows S
RECURSIVE SumAmount(_, _)
SumAmount(es, S) ==
  IF S = {} THEN 0
  ELSE LET x == CHOOSE y \in S : TRUE IN es[x].amount + SumAmount(es, S \ {x})
\* { $match: { status: { $in: sts } } } / countDocuments({ status: { $in: sts } })
WithStatus(es, sts) == {x \in DOMAIN es : es[x].status \in sts}

\* getStats and getQuickStats: $match active or completed, $group the sum;
\* totalRevenue[0]?.total || 0
MatchedRevenueAllRows(es) == SumAmount(es, DOMAIN es)
MatchedRevenue(es) == SumAmount(es, WithStatus(es, {"active", "completed"}))
\* getEnrollmentStats: $group by status, then
\* (statusMap["active"]?.revenue || 0) + (statusMap["completed"]?.revenue || 0)
StatusMapRevenue(es) ==
  SumAmount(es, WithStatus(es, {"active"})) + SumAmount(es, WithStatus(es, {"completed"}))
\* getEngagementStats: completedCount / totalActiveEnrollments * 100 when the
\* divisor is positive, else 0; Math.round(rate * 100) / 100. The value is
\* kept in hundredths of a percent.
CompletionRate(es) ==
  LET completedCount == Cardinality(WithStatus(es, {"completed"}))
      totalActive == Cardinality(WithStatus(es, {"active", "completed"}))
  IN IF totalActive > 0
     THEN (2 * 10000 * completedCount + totalActive) \div (2 * totalActive)
     ELSE 0

\* EnrollmentController.getStats
GetStats ==
  /\ resp' = [op |-> "getStats", status |-> 200, id |-> 0,
              totalEnrollments |-> Cardinality(DOMAIN enrollments),
              totalRevenue |-> MatchedRevenue(enrollments)]
  /\ UNCHANGED <<courses, chapters, lessons, enrollments, progress, users, nextId, procs>>

\* GET /dashboard: StatsService.getDashboardStats
GetDashboardStats ==
  /\ resp' = [op |-> "getDashboardStats", status |-> 200, id |-> 0,
              totalEnrollments |-> Cardinality(DOMAIN enrollments),
              totalRevenue |-> StatusMapRevenue(enrollments),
              completionRate |-> CompletionRate(enrollments)]
  /\ UNCHANGED <<courses, chapters, lessons, enrollments, progress, users, nextId, procs>>

\* GET /quick: StatsService.getQuickStats
GetQuickStats ==
  /\ resp' = [op |-> "getQuickStats", status |-> 200, id |-> 0,
              totalCourses |-> Cardinality(DOMAIN courses),
              totalRevenue |-> MatchedRevenue(enrollments)]
  /\ UNCHANGED <<courses, chapters, lessons, enrollments, progress, users, nextId, procs>>

\* ------------------------------------------------------------ guard middleware
\* A request: its method, its URL as the sequence of its characters, the
\* caller's session (user NoUser when there is none) and what the protection
\* service answers when it is asked.
ApiProduct == <<"/", "a", "p", "i", "/", "p", "r", "o", "d", "u", "c", "t">>
ApiEnrollment == <<"/", "a", "p", "i", "/", "e", "n", "r", "o", "l", "l", "m", "e", "n", "t">>
ApiStats == <<"/", "a", "p", "i", "/", "s", "t", "a", "t", "s">>
\* The same three paths as a client may spell them.
Respell(url) == <<"/", "A", "P", "I">> \o SubSeq(url, 5, Len(url))
Lower(url) == [i \in 1..Len(url) |-> ToLower(url[i])]
\* String.prototype.startsWith: character by character, case included
StartsWith(url, prefix) ==
  Len(prefix) <= Len(url) /\ SubSeq(url, 1, Len(prefix)) = prefix
\* app.use(path, ...): the application's router matches the mount path without
\* regard to case ("case sensitive routing" is off unless enabled, and
\* index.ts does not enable it).
Mounted(url, path) ==
  Len(path) <= Len(url) /\ SubSeq(Lower(url), 1, Len(path)) = path

Callers ==
  {[user |-> NoUser, role |-> "none"], [user |-> 1, role |-> "user"],
   [user |-> 2, role |-> "admin"]}
\* aj....protect(req): the service allows, denies as a bot, denies on the rate
\* limit, or the call throws.
ArcjetAnswers == {"allow", "bot", "rateLimit", "throws"}

\* protect(req): the decision, as the kind of its reason. The custom denials
\* are returned before the service is asked; an exception inside the try block
\* gives a decision that is not denied.
Protect(method, url, caller, aj) ==
  LET asked == IF aj = "throws" THEN "allow" ELSE aj
      notAdmin == caller.user = NoUser \/ caller.role # "admin"
  IN IF StartsWith(url, ApiProduct)
     THEN IF method = "GET" THEN asked
          ELSE IF notAdmin THEN "custom" ELSE asked
     ELSE IF StartsWith(url, ApiEnrollment)
     THEN IF caller.user = NoUser THEN "custom" ELSE asked
     ELSE IF StartsWith(url, ApiStats)
     THEN IF notAdmin THEN "custom" ELSE asked
     ELSE asked

\* arcjetMiddleware(): the status of the refusal, 0 when next() is called.
GuardStatus(decision) ==
  CASE decision = "rateLimit" -> 429
    [] decision = "custom" -> 401
    [] decision = "bot" -> 403
    [] OTHER -> 0

Refuse(status) ==
  /\ Respond("guard", status, 0)
  /\ UNCHANGED <<courses, chapters, lessons, enrollments, progress, users, nextId, procs>>

\* app.use("/api/product", arcjetMiddleware(), productRoutes)
ProductRequest(method, url, caller, aj, id) ==
  /\ Mounted(url, ApiProduct)
  /\ LET status == GuardStatus(Protect(method, url, caller, aj)) IN
       IF status # 0 THEN Refuse(status)
       ELSE CASE method = "POST" -> CreateCourse(10, TRUE)
              [] method = "DELETE" -> DeleteCourse(id)
              [] OTHER -> /\ Respond("getCourse", IF id \in DOMAIN courses THEN 200 ELSE 404, id)
                          /\ UNCHANGED <<courses, chapters, lessons, enrollments,
                                         progress, users, nextId, procs>>

\* app.use("/api/enrollment", arcjetMiddleware(), enrollmentRoutes)
EnrollmentRequest(method, url, caller, aj, id) ==
  /\ Mounted(url, ApiEnrollment)
  /\ LET status == GuardStatus(Protect(method, url, caller, aj)) IN
       IF status # 0 THEN Refuse(status)
       ELSE CASE method = "POST" -> Enroll(caller.user, id)
              [] method = "DELETE" -> Unenroll(id)
              [] OTHER -> GetStats

\* app.use("/api/stats", arcjetMiddleware(), statsRoutes)
StatsRequest(url, caller, aj) ==
  /\ Mounted(url, ApiStats)
  /\ LET status == GuardStatus(Protect("GET", url, caller, aj)) IN
       IF status # 0 THEN Refuse(status) ELSE GetQuickStats

\* ------------------------------------------- requests as interleaved processes
\* Each action below is one awaited operation of a handler; between two of
\* them any other request may run.
At(p, op, pc) == procs[p].op = op /\ procs[p].pc = pc
Goto(p, pc) == procs' = [procs EXCEPT ![p].pc = pc]
GotoWith(p, pc, local) == procs' = [procs EXCEPT ![p].pc = pc, ![p].local = local]
Done(p, status) == procs' = [procs EXCEPT ![p].pc = "done", ![p].status = status]
\* The response is sent and the handler's locals are gone.
Finish(p, status) ==
  procs' = [procs EXCEPT ![p] = [Idle EXCEPT !.pc = "done", !.op = procs[p].op, !.status = status]]
DoneWith(p, status, local) ==
  procs' = [procs EXCEPT ![p].pc = "done", ![p].status = status, ![p].local = local]

\* EnrollmentController.create, step by step.
EnrollBegin(p, u, c) ==             \* auth.api.getSession
  /\ procs[p].pc = "idle"
  /\ procs' = [procs EXCEPT ![p] =
       IF u = NoUser
       THEN [Idle EXCEPT !.pc = "done", !.op = "enroll", !.arg = c, !.status = 401]
       ELSE [Idle EXCEPT !.pc = "findCourse", !.op = "enroll", !.user = u, !.arg = c]]
  /\ UNCHANGED <<courses, chapters, lessons, enrollments, progress, users, nextId, resp>>

EnrollFindCourse(p) ==              \* Course.findById; the handler keeps course.price
  /\ At(p, "enroll", "findCourse")
  /\ IF procs[p].arg \notin DOMAIN courses
     THEN Done(p, 404)
     ELSE GotoWith(p, "findExisting", courses[procs[p].arg].price)
  /\ UNCHANGED <<courses, chapters, lessons, enrollments, progress, users, nextId, resp>>

EnrollFindExisting(p) ==            \* Enrollment.findOne({ user, course })
  /\ At(p, "enroll", "findExisting")
  /\ IF EnrollmentsOf(enrollments, procs[p].user, procs[p].arg) # {}
     THEN Done(p, 400)
     ELSE Goto(p, "save")
  /\ UNCHANGED <<courses, chapters, lessons, enrollments, progress, users, nextId, resp>>

EnrollSave(p) ==                    \* enrollment.save(); error.code 11000 -> 400
  /\ At(p, "enroll", "save")
  /\ IF ~UniqueIndexAllows(enrollments, procs[p].user, procs[p].arg)
     THEN /\ DoneWith(p, 400, 11000)
          /\ UNCHANGED <<enrollments, nextId>>
     ELSE LET id == nextId.enrollment + 1 IN
          /\ id <= MaxEnrollments
          /\ enrollments' = Insert(enrollments, id,
                [user |-> procs[p].user, course |-> procs[p].arg,
                 amount |-> procs[p].local, status |-> "active"])
          /\ nextId' = [nextId EXCEPT !.enrollment = id]
          /\ GotoWith(p, "pushUser", id)
  /\ UNCHANGED <<courses, chapters, lessons, progress, users, resp>>

EnrollPushUser(p) ==                \* User.findByIdAndUpdate($push enrollments)
  /\ At(p, "enroll", "pushUser")
  /\ users' = [users EXCEPT ![procs[p].user].enrollments = Append(@, procs[p].local)]
  /\ Goto(p, "populate")
  /\ UNCHANGED <<courses, chapters, lessons, enrollments, progress, nextId, resp>>

EnrollPopulate(p) ==                \* Enrollment.findById(...).populate; 201
  /\ At(p, "enroll", "populate")
  /\ Done(p, 201)
  /\ UNCHANGED <<courses, chapters, lessons, enrollments, progress, users, nextId, resp>>

\* LessonProgressController.createOrUpdate behind authenticateToken, step by step.
ProgressBegin(p, u, l, b) ==        \* authenticateToken: auth.api.getSession
  /\ procs[p].pc = "idle"
  /\ procs' = [procs EXCEPT ![p] =
       IF u = NoUser
       THEN [Idle EXCEPT !.pc = "done", !.op = "setCompletion", !.status = 401]
       ELSE [Idle EXCEPT !.pc = "findLesson", !.op = "setCompletion", !.user = u,
                         !.arg = l, !.completed = b]]
  /\ UNCHANGED <<courses, chapters, lessons, enrollments, progress, users, nextId, resp>>

ProgressFindLesson(p) ==            \* Lesson.findById; the handler keeps lesson.chapter
  /\ At(p, "setCompletion", "findLesson")
  /\ IF procs[p].arg \notin DOMAIN lessons
     THEN Finish(p, 404)
     ELSE GotoWith(p, "findChapter", lessons[procs[p].arg].chapter)
  /\ UNCHANGED <<courses, chapters, lessons, enrollments, progress, users, nextId, resp>>

ProgressFindChapter(p) ==           \* Chapter.findById; the handler keeps chapter.course
  /\ At(p, "setCompletion", "findChapter")
  /\ IF procs[p].local \notin DOMAIN chapters
     THEN Finish(p, 404)
     ELSE GotoWith(p, "findEnrollment", chapters[procs[p].local].course)
  /\ UNCHANGED <<courses, chapters, lessons, enrollments, progress, users, nextId, resp>>

ProgressFindEnrollment(p) ==        \* Enrollment.findOne({ user, course, status })
  /\ At(p, "setCompletion", "findEnrollment")
  /\ IF QualifyingEnrollments(enrollments, procs[p].user, procs[p].local) = {}
     THEN Finish(p, 403)
     ELSE Goto(p, "findProgress")
  /\ UNCHANGED <<courses, chapters, lessons, enrollments, progress, users, nextId, resp>>

ProgressFindOne(p) ==               \* LessonProgress.findOne({ user, lesson })
  /\ At(p, "setCompletion", "findProgress")
  /\ LET rows == ProgressRecords(progress, procs[p].user, {procs[p].arg}) IN
       IF rows # {}
       THEN \E r \in rows : GotoWith(p, "saveExisting", r)
       ELSE Goto(p, "saveNew")
  /\ UNCHANGED <<courses, chapters, lessons, enrollments, progress, users, nextId, resp>>

ProgressSaveExisting(p) ==          \* lessonProgress.completed = completed; save()
  /\ At(p, "setCompletion", "saveExisting")
  /\ IF procs[p].local \in DOMAIN progress
     THEN /\ progress' = [progress EXCEPT ![procs[p].local].completed = procs[p].completed]
          /\ Goto(p, "populate")
     ELSE /\ UNCHANGED progress
          /\ Finish(p, 500)
  /\ UNCHANGED <<courses, chapters, lessons, enrollments, users, nextId, resp>>

ProgressSaveNew(p) ==               \* new LessonProgress(...).save(): no unique index
  /\ At(p, "setCompletion", "saveNew")
  /\ LET id == nextId.progress + 1 IN
       /\ id <= MaxProgress
       /\ progress' = Insert(progress, id,
             [user |-> procs[p].user, lesson |-> procs[p].arg,
              completed |-> procs[p].completed])
       /\ nextId' = [nextId EXCEPT !.progress = id]
       /\ GotoWith(p, "addRefs", id)
  /\ UNCHANGED <<courses, chapters, lessons, enrollments, users, resp>>

\* Promise.all([Lesson.findByIdAndUpdate($addToSet), User.findByIdAndUpdate($addToSet)]):
\* the two updates complete in either order.
ProgressAddLessonRef(p) ==
  /\ \/ At(p, "setCompletion", "addRefs") /\ Goto(p, "addUserRef")
     \/ At(p, "setCompletion", "addLessonRef") /\ Goto(p, "populate")
  /\ lessons' = IF procs[p].arg \in DOMAIN lessons
                THEN [lessons EXCEPT ![procs[p].arg].lessonProgress = AddToSet(@, procs[p].local)]
                ELSE lessons
  /\ UNCHANGED <<courses, chapters, enrollments, progress, users, nextId, resp>>

ProgressAddUserRef(p) ==
  /\ \/ At(p, "setCompletion", "addRefs") /\ Goto(p, "addLessonRef")
     \/ At(p, "setCompletion", "addUserRef") /\ Goto(p, "populate")
  /\ users' = [users EXCEPT ![procs[p].user].lessonProgress = AddToSet(@, procs[p].local)]
  /\ UNCHANGED <<courses, chapters, lessons, enrollments, progress, nextId, resp>>

ProgressPopulate(p) ==              \* lessonProgress.populate; 200
  /\ At(p, "setCompletion", "populate")
  /\ Finish(p, 200)
  /\ UNCHANGED <<courses, chapters, lessons, enrollments, progress, users, nextId, resp>>

\* The indexes of the chapters collection: { course: 1 } and { createdAt: -1 },
\* neither unique, so they accept every document.
ChapterIndexesUniquePosition(chs, doc) ==
  ~\E x \in DOMAIN chs : chs[x].course = doc.course /\ chs[x].position = doc.position
ChapterIndexesAllow(chs, doc) == TRUE
\* The index of the lessons collection: { chapter: 1, createdAt: -1 }, not unique.
LessonIndexesAllow(ls, doc) == TRUE

\* ChapterController.create, step by step.
ChapterCreateBegin(p, c) ==         \* title and courseId are present
  /\ procs[p].pc = "idle"
  /\ procs' = [procs EXCEPT ![p] =
       [Idle EXCEPT !.pc = "findCourse", !.op = "createChapter", !.arg = c]]
  /\ UNCHANGED <<courses, chapters, lessons, enrollments, progress, users, nextId, resp>>

ChapterCreateFindCourse(p) ==       \* Course.findById
  /\ At(p, "createChapter", "findCourse")
  /\ IF procs[p].arg \notin DOMAIN courses THEN Done(p, 404) ELSE Goto(p, "count")
  /\ UNCHANGED <<courses, chapters, lessons, enrollments, progress, users, nextId, resp>>

ChapterCreateCount(p) ==            \* Chapter.countDocuments({ course })
  /\ At(p, "createChapter", "count")
  /\ GotoWith(p, "save", Cardinality(ChaptersOf(chapters, procs[p].arg)))
  /\ UNCHANGED <<courses, chapters, lessons, enrollments, progress, users, nextId, resp>>

ChapterCreateSave(p) ==             \* chapter.save() with position count + 1
  /\ At(p, "createChapter", "save")
  /\ LET id == nextId.chapter + 1
         doc == [course |-> procs[p].arg, position |-> procs[p].local + 1,
                 lessons |-> <<>>]
     IN IF ~ChapterIndexesAllow(chapters, doc)
        THEN /\ Done(p, 500)
             /\ UNCHANGED <<chapters, nextId>>
        ELSE /\ id <= MaxChapters
             /\ chapters' = Insert(chapters, id, doc)
             /\ nextId' = [nextId EXCEPT !.chapter = id]
             /\ GotoWith(p, "push", id)
  /\ UNCHANGED <<courses, lessons, enrollments, progress, users, resp>>

ChapterCreatePush(p) ==             \* course.chapters.push(id); course.save(); 201
  /\ At(p, "createChapter", "push")
  /\ IF procs[p].arg \in DOMAIN courses
     THEN /\ courses' = [courses EXCEPT ![procs[p].arg].chapters = Append(@, procs[p].local)]
          /\ Done(p, 201)
     ELSE /\ UNCHANGED courses
          /\ Done(p, 500)
  /\ UNCHANGED <<chapters, lessons, enrollments, progress, users, nextId, resp>>

\* LessonController.create, step by step.
LessonCreateBegin(p, ch) ==         \* title and chapterId are present
  /\ procs[p].pc = "idle"
  /\ procs' = [procs EXCEPT ![p] =
       [Idle EXCEPT !.pc = "findChapter", !.op = "createLesson", !.arg = ch]]
  /\ UNCHANGED <<courses, chapters, lessons, enrollments, progress, users, nextId, resp>>

LessonCreateFindChapter(p) ==       \* Chapter.findById
  /\ At(p, "createLesson", "findChapter")
  /\ IF procs[p].arg \notin DOMAIN chapters THEN Done(p, 404) ELSE Goto(p, "count")
  /\ UNCHANGED <<courses, chapters, lessons, enrollments, progress, users, nextId, resp>>

LessonCreateCount(p) ==             \* Lesson.countDocuments({ chapter })
  /\ At(p, "createLesson", "count")
  /\ GotoWith(p, "save", Cardinality(LessonsOf(lessons, procs[p].arg)))
  /\ UNCHANGED <<courses, chapters, lessons, enrollments, progress, users, nextId, resp>>

LessonCreateSave(p) ==              \* lesson.save() with position count + 1
  /\ At(p, "createLesson", "save")
  /\ LET id == nextId.lesson + 1
         doc == [chapter |-> procs[p].arg, position |-> procs[p].local + 1,
                 lessonProgress |-> <<>>]
     IN IF ~LessonIndexesAllow(lessons, doc)
        THEN /\ Done(p, 500)
             /\ UNCHANGED <<lessons, nextId>>
        ELSE /\ id <= MaxLessons
             /\ lessons' = Insert(lessons, id, doc)
             /\ nextId' = [nextId EXCEPT !.lesson = id]
             /\ GotoWith(p, "push", id)
  /\ UNCHANGED <<courses, chapters, enrollments, progress, users, resp>>

LessonCreatePush(p) ==              \* chapter.lessons.push(id); chapter.save(); 201
  /\ At(p, "createLesson", "push")
  /\ IF procs[p].arg \in DOMAIN chapters
     THEN /\ chapters' = [chapters EXCEPT ![procs[p].arg].lessons = Append(@, procs[p].local)]
          /\ Done(p, 201)
     ELSE /\ UNCHANGED chapters
          /\ Done(p, 500)
  /\ UNCHANGED <<courses, lessons, enrollments, progress, users, nextId, resp>>

\* CourseController.delete, step by step. The handler holds the chapters that
\* Chapter.find returned and works through them; its local variable is the set
\* of those not yet visited.
CourseDeleteBegin(p, id) ==         \* a request arrives while no other is in flight
  /\ procs[p].pc \in {"idle", "done"}
  /\ \A q \in Procs \ {p} : procs[q].pc \in {"idle", "done"}
  /\ procs' = [procs EXCEPT ![p] =
       [Idle EXCEPT !.pc = "findCourse", !.op = "deleteCourse", !.arg = id]]
  /\ UNCHANGED <<courses, chapters, lessons, enrollments, progress, users, nextId, resp>>

CourseDeleteFindCourse(p) ==        \* Course.findById
  /\ At(p, "deleteCourse", "findCourse")
  /\ IF procs[p].arg \notin DOMAIN courses THEN Finish(p, 404) ELSE Goto(p, "findChapters")
  /\ UNCHANGED <<courses, chapters, lessons, enrollments, progress, users, nextId, resp>>

CourseDeleteFindChapters(p) ==      \* Chapter.find({ course })
  /\ At(p, "deleteCourse", "findChapters")
  /\ GotoWith(p, "lessons", ChaptersOf(chapters, procs[p].arg))
  /\ UNCHANGED <<courses, chapters, lessons, enrollments, progress, users, nextId, resp>>

CourseDeleteLessonsOf(p) ==         \* one turn of the loop: Lesson.deleteMany({ chapter })
  /\ At(p, "deleteCourse", "lessons")
  /\ procs[p].local # {}
  /\ \E ch \in procs[p].local :
       /\ lessons' = LessonDeleteMany(lessons, {ch})
       /\ GotoWith(p, "lessons", procs[p].local \ {ch})
  /\ UNCHANGED <<courses, chapters, enrollments, progress, users, nextId, resp>>

CourseDeleteChapters(p) ==          \* after the loop: Chapter.deleteMany({ course })
  /\ At(p, "deleteCourse", "lessons")
  /\ procs[p].local = {}
  /\ chapters' = ChapterDeleteMany(chapters, procs[p].arg)
  /\ GotoWith(p, "hookLessons", 0)
  /\ UNCHANGED <<courses, lessons, enrollments, progress, users, nextId, resp>>

\* course.deleteOne(): the pre("deleteOne") hook finds the chapters of the
\* course, deletes their lessons, deletes the chapters; then the record goes.
CourseDeleteHookLessons(p) ==
  /\ At(p, "deleteCourse", "hookLessons")
  /\ lessons' = LessonDeleteMany(lessons, ChaptersOf(chapters, procs[p].arg))
  /\ Goto(p, "hookChapters")
  /\ UNCHANGED <<courses, chapters, enrollments, progress, users, nextId, resp>>

CourseDeleteHookChapters(p) ==
  /\ At(p, "deleteCourse", "hookChapters")
  /\ chapters' = ChapterDeleteMany(chapters, procs[p].arg)
  /\ Goto(p, "remove")
  /\ UNCHANGED <<courses, lessons, enrollments, progress, users, nextId, resp>>

CourseDeleteRemove(p) ==            \* the course record is deleted; 200
  /\ At(p, "deleteCourse", "remove")
  /\ courses' = Remove(courses, {procs[p].arg})
  /\ Finish(p, 200)
  /\ UNCHANGED <<chapters, lessons, enrollments, progress, users, nextId, resp>>

\* LessonController.delete, step by step. The handler keeps the chapter and
\* the position of the lesson it found; the request keeps its id parameter.
LessonDeleteBegin(p, id) ==
  /\ procs[p].pc = "idle"
  /\ procs' = [procs EXCEPT ![p] =
       [Idle EXCEPT !.pc = "findLesson", !.op = "deleteLesson", !.arg = id]]
  /\ UNCHANGED <<courses, chapters, lessons, enrollments, progress, users, nextId, resp>>

LessonDeleteFind(p) ==              \* Lesson.findById; chapterId, deletedPosition
  /\ At(p, "deleteLesson", "findLesson")
  /\ IF procs[p].arg \notin DOMAIN lessons
     THEN Done(p, 404)
     ELSE GotoWith(p, "pull", [chapter |-> lessons[procs[p].arg].chapter,
                               position |-> lessons[procs[p].arg].position])
  /\ UNCHANGED <<courses, chapters, lessons, enrollments, progress, users, nextId, resp>>

LessonDeletePull(p) ==              \* Chapter.findByIdAndUpdate($pull lessons)
  /\ At(p, "deleteLesson", "pull")
  /\ chapters' = ChapterPullLesson(chapters, procs[p].local.chapter, procs[p].arg)
  /\ Goto(p, "hook")
  /\ UNCHANGED <<courses, lessons, enrollments, progress, users, nextId, resp>>

LessonDeleteHook(p) ==              \* pre("deleteOne"): $pull again, progress rows
  /\ At(p, "deleteLesson", "hook")
  /\ chapters' = ChapterPullLesson(chapters, procs[p].local.chapter, procs[p].arg)
  /\ progress' = ProgressDeleteMany(progress, procs[p].arg)
  /\ Goto(p, "remove")
  /\ UNCHANGED <<courses, lessons, enrollments, users, nextId, resp>>

LessonDeleteRemove(p) ==            \* lesson.deleteOne(): the document goes
  /\ At(p, "deleteLesson", "remove")
  /\ lessons' = Remove(lessons, {procs[p].arg} \cap DOMAIN lessons)
  /\ Goto(p, "shift")
  /\ UNCHANGED <<courses, chapters, enrollments, progress, users, nextId, resp>>

LessonDeleteShift(p) ==             \* Lesson.updateMany($gt deletedPosition, $inc -1); 200
  /\ At(p, "deleteLesson", "shift")
  /\ lessons' = LessonShiftDown(lessons, procs[p].local.chapter, procs[p].local.position)
  /\ Done(p, 200)
  /\ UNCHANGED <<courses, chapters, enrollments, progress, users, nextId, resp>>

\* ------------------------------------------------------------- specifications
\* Non-overlapping requests on the content hierarchy.
Next ==
  \/ \E price \in Prices \cup {-1}, ok \in BOOLEAN : CreateCourse(price, ok)
  \/ \E id \in CourseIds : DeleteCourse(id)
  \/ \E c \in CourseIds, ok \in BOOLEAN : CreateChapter(c, ok)
  \/ \E id \in ChapterIds : DeleteChapter(id)
  \/ \E ch \in ChapterIds, ok \in BOOLEAN : CreateLesson(ch, ok)
  \/ \E id \in LessonIds : DeleteLesson(id)

Spec == Init /\ [][Next]_vars

\* Non-overlapping enrollment requests over a catalogue of courses.
NextEnroll ==
  \/ \E price \in Prices \cup {-1}, ok \in BOOLEAN : CreateCourse(price, ok)
  \/ \E id \in CourseIds : DeleteCourse(id)
  \/ \E u \in Users \cup {NoUser}, c \in CourseIds : Enroll(u, c)
  \/ \E id \in EnrollmentIds, st \in StatusInputs : UpdateEnrollment(id, st)

SpecEnroll == Init /\ [][NextEnroll]_vars

\* Non-overlapping progress requests: a small catalogue is built, users
\* enroll, toggle lesson completion and read the rollups.
LearnChapterIds == 1..LearnChapters
LearnLessonIds == 1..LearnLessons
SmallCatalogue ==
  /\ nextId'.chapter <= LearnChapters
  /\ nextId'.lesson <= LearnLessons

NextLearn ==
  \/ \E price \in Prices : CreateCourse(price, TRUE)
  \/ \E c \in CourseIds : CreateChapter(c, TRUE) /\ SmallCatalogue
  \/ \E ch \in LearnChapterIds : CreateLesson(ch, TRUE) /\ SmallCatalogue
  \/ \E u \in Users, c \in CourseIds : Enroll(u, c)
  \/ \E id \in EnrollmentIds, st \in StatusInputs : UpdateEnrollment(id, st)
  \/ \E u \in Users \cup {NoUser}, l \in LearnLessonIds, b \in BOOLEAN : SetCompletion(u, l, b)

SpecLearn == Init /\ [][NextLearn]_vars

\* Non-overlapping rollup reads between progress requests of enrolled users.
NextRollup ==
  \/ \E price \in Prices : CreateCourse(price, TRUE)
  \/ \E c \in CourseIds : CreateChapter(c, TRUE) /\ SmallCatalogue
  \/ \E ch \in LearnChapterIds : CreateLesson(ch, TRUE) /\ SmallCatalogue
  \/ \E u \in Users, c \in CourseIds : Enroll(u, c)
  \/ \E u \in Users, l \in LearnLessonIds, b \in BOOLEAN : SetCompletion(u, l, b)
  \/ \E u \in Users, ch \in LearnChapterIds : GetChapterProgress(u, ch)
  \/ \E u \in Users, c \in CourseIds : GetCourseProgress(u, c)
  \/ \E u \in Users : GetUserProgress(u)

SpecRollup == Init /\ [][NextRollup]_vars

\* Courses with a changing price, enrollments and their upkeep.
PriceUpdates == {{}, {20}, {-5}}
ProgressInputs == {-1, 0, 50, 100, 101}
NextAccount ==
  \/ \E price \in Prices : CreateCourse(price, TRUE)
  \/ \E id \in CourseIds, prices \in PriceUpdates : UpdateCourse(id, prices, <<>>, {}, 1)
  \/ \E u \in Users, c \in CourseIds : Enroll(u, c)
  \/ \E id \in EnrollmentIds, status \in StatusInputs : UpdateEnrollment(id, status)
  \/ \E id \in EnrollmentIds, p \in ProgressInputs : UpdateProgress(id, p)
  \/ \E u \in Users \cup {NoUser}, c \in CourseIds : CheckEnrollment(u, c)
  \/ \E id \in EnrollmentIds : Unenroll(id)

SpecAccount == Init /\ [][NextAccount]_vars

\* Progress rows against unenroll and lesson deletion.
NextLeave ==
  \/ \E price \in Prices : CreateCourse(price, TRUE) /\ nextId'.course <= ConcCourses
  \/ \E c \in CourseIds : CreateChapter(c, TRUE) /\ SmallCatalogue
  \/ \E ch \in LearnChapterIds : CreateLesson(ch, TRUE) /\ SmallCatalogue
  \/ \E u \in Users, c \in CourseIds : Enroll(u, c)
  \/ \E u \in Users, l \in LearnLessonIds, b \in BOOLEAN : SetCompletion(u, l, b)
  \/ \E id \in EnrollmentIds : Unenroll(id)
  \/ \E id \in LearnLessonIds : DeleteLesson(id)

SpecLeave == Init /\ [][NextLeave]_vars

\* Courses created and renamed with titles and slugs that normalize to the
\* same text, at clock readings that may repeat within one millisecond.
Clock == {1, 2}
Titles == {<<"A">>, <<"a">>, <<"a", " ", "1">>, <<" ", "A", "!", "-", "1">>}
SlugTexts == {<<"a">>, <<"A", "-", "1">>, <<"c">>, <<"!">>}
NextSlug ==
  \/ \E text \in Titles, now \in Clock, price \in Prices :
       CreateCourseFrom(price, TRUE, text, "Draft", now)
  \/ \E id \in SlugCourseIds, text \in SlugTexts, now \in Clock :
       UpdateCourse(id, {}, text, {}, now)
  \/ \E id \in SlugCourseIds : DeleteCourse(id)

SpecSlug == Init /\ [][NextSlug]_vars

\* Courses in draft and published, with chapters and lessons, read by slug by
\* callers with and without a session, enrolled or not.
ViewSlugs == {<<"a">>, <<"c">>}
ViewStatus == {"Draft", "Published"}
NextView ==
  \/ \E text \in ViewSlugs, st \in ViewStatus, price \in Prices :
       CreateCourseFrom(price, TRUE, text, st, 1) /\ nextId'.course <= MaxCourses
  \/ \E id \in CourseIds, st \in ViewStatus : UpdateCourse(id, {}, <<>>, {st}, 1)
  \/ \E c \in CourseIds : CreateChapter(c, TRUE) /\ nextId'.chapter <= ConcChapters
  \/ \E ch \in ChapterIds : CreateLesson(ch, TRUE) /\ nextId'.lesson <= ViewLessons
  \/ \E u \in Users, c \in CourseIds : Enroll(u, c)
  \/ \E id \in EnrollmentIds, st \in {"active", "cancelled"} : UpdateEnrollment(id, st)
  \/ \E u \in Users \cup {NoUser}, slug \in ViewSlugs \cup {<<"x">>} : GetBySlug(u, slug)

SpecView == Init /\ [][NextView]_vars

\* The catalogue handlers while the object store may fail to answer.
NextMedia ==
  \/ \E price \in Prices : CreateCourse(price, TRUE)
  \/ \E c \in CourseIds : CreateChapter(c, TRUE)
  \/ \E ch \in ChapterIds : CreateLesson(ch, TRUE)
  \/ \E id \in CourseIds, s3Up \in BOOLEAN : DeleteCourseMedia(id, s3Up)
  \/ \E id \in ChapterIds, s3Up \in BOOLEAN : DeleteChapterMedia(id, s3Up)
  \/ \E id \in LessonIds, s3Up \in BOOLEAN : DeleteLessonMedia(id, s3Up)

SpecMedia == Init /\ [][NextMedia]_vars

\* Overlapping enroll requests: the catalogue is built first, then every
\* process sends one enroll request and they interleave step by step.
NextConcEnroll ==
  \/ NoneStarted /\ \E price \in Prices : CreateCourse(price, TRUE)
  \/ \E p \in Procs, u \in Users \cup {NoUser}, c \in CourseIds : EnrollBegin(p, u, c)
  \/ \E p \in Procs : EnrollFindCourse(p)
  \/ \E p \in Procs : EnrollFindExisting(p)
  \/ \E p \in Procs : EnrollSave(p)
  \/ \E p \in Procs : EnrollPushUser(p)
  \/ \E p \in Procs : EnrollPopulate(p)

SpecConcEnroll == Init /\ [][NextConcEnroll]_vars

\* Overlapping setCompletion requests: the catalogue is built and users
\* enroll first, then every process sends one setCompletion request and they
\* interleave step by step; the rollups are read while no request is in flight.
NextConcProgress ==
  \/ NoneStarted /\ \E price \in Prices : CreateCourse(price, TRUE) /\ nextId'.course <= ConcCourses
  \/ NoneStarted /\ \E c \in CourseIds : CreateChapter(c, TRUE) /\ nextId'.chapter <= ConcChapters
  \/ NoneStarted /\ \E ch \in LearnChapterIds : CreateLesson(ch, TRUE) /\ SmallCatalogue
  \/ NoneStarted /\ \E u \in Users, c \in CourseIds : Enroll(u, c)
  \/ \E p \in Procs, u \in Users \cup {NoUser}, l \in LearnLessonIds, b \in BOOLEAN :
       ProgressBegin(p, u, l, b)
  \/ \E p \in Procs : ProgressFindLesson(p)
  \/ \E p \in Procs : ProgressFindChapter(p)
  \/ \E p \in Procs : ProgressFindEnrollment(p)
  \/ \E p \in Procs : ProgressFindOne(p)
  \/ \E p \in Procs : ProgressSaveExisting(p)
  \/ \E p \in Procs : ProgressSaveNew(p)
  \/ \E p \in Procs : ProgressAddLessonRef(p)
  \/ \E p \in Procs : ProgressAddUserRef(p)
  \/ \E p \in Procs : ProgressPopulate(p)
  \/ Quiescent /\ \E u \in Users, ch \in LearnChapterIds : GetChapterProgress(u, ch)
  \/ Quiescent /\ \E u \in Users, c \in CourseIds : GetCourseProgress(u, c)

SpecConcProgress == Init /\ [][NextConcProgress]_vars

\* Overlapping create requests for chapters and lessons: a course and a
\* chapter exist first, then every process sends one create request.
NextConcCreate ==
  \/ NoneStarted /\ \E price \in Prices : CreateCourse(price, TRUE)
  \/ NoneStarted /\ \E c \in CourseIds : CreateChapter(c, TRUE) /\ nextId'.chapter <= ConcChapters
  \/ \E p \in Procs, c \in CourseIds : ChapterCreateBegin(p, c)
  \/ \E p \in Procs : ChapterCreateFindCourse(p)
  \/ \E p \in Procs : ChapterCreateCount(p)
  \/ \E p \in Procs : ChapterCreateSave(p)
  \/ \E p \in Procs : ChapterCreatePush(p)
  \/ \E p \in Procs, ch \in ChapterIds : LessonCreateBegin(p, ch)
  \/ \E p \in Procs : LessonCreateFindChapter(p)
  \/ \E p \in Procs : LessonCreateCount(p)
  \/ \E p \in Procs : LessonCreateSave(p)
  \/ \E p \in Procs : LessonCreatePush(p)

SpecConcCreate == Init /\ [][NextConcCreate]_vars

\* deleteCourse one store operation at a time, with no other request in
\* flight: the catalogue is built between the cascades.
NextCascade ==
  \/ Quiescent /\ \E price \in Prices : CreateCourse(price, TRUE)
  \/ Quiescent /\ \E c \in CourseIds : CreateChapter(c, TRUE)
  \/ Quiescent /\ \E ch \in ChapterIds : CreateLesson(ch, TRUE)
  \/ \E p \in Procs, id \in CourseIds : CourseDeleteBegin(p, id)
  \/ \E p \in Procs : CourseDeleteFindCourse(p)
  \/ \E p \in Procs : CourseDeleteFindChapters(p)
  \/ \E p \in Procs : CourseDeleteLessonsOf(p)
  \/ \E p \in Procs : CourseDeleteChapters(p)
  \/ \E p \in Procs : CourseDeleteHookLessons(p)
  \/ \E p \in Procs : CourseDeleteHookChapters(p)
  \/ \E p \in Procs : CourseDeleteRemove(p)

SpecCascade == Init /\ [][NextCascade]_vars

\* Non-overlapping chapter and lesson requests, update included: a body with
\* no position, with the position the document may already hold, with another
\* sibling's position, with one past the end, and with 0.
PositionUpdates == {{}, {0}, {1}, {2}, {3}}
NextReorder ==
  \/ \E price \in Prices : CreateCourse(price, TRUE) /\ nextId'.course <= ConcCourses
  \/ \E c \in CourseIds : CreateChapter(c, TRUE) /\ SmallCatalogue
  \/ \E id \in LearnChapterIds : DeleteChapter(id)
  \/ \E id \in LearnChapterIds, pos \in PositionUpdates : UpdateChapter(id, pos, {})
  \/ \E ch \in LearnChapterIds : CreateLesson(ch, TRUE) /\ SmallCatalogue
  \/ \E id \in LearnLessonIds : DeleteLesson(id)
  \/ \E id \in LearnLessonIds, pos \in PositionUpdates : UpdateLesson(id, pos, {})

SpecReorder == Init /\ [][NextReorder]_vars

\* Enrollments of every storable status, at two prices, and the three
\* statistics endpoints.
NextStats ==
  \/ \E price \in Prices \cup {20} : CreateCourse(price, TRUE)
  \/ \E u \in Users, c \in CourseIds : Enroll(u, c)
  \/ \E id \in EnrollmentIds, status \in StatusInputs : UpdateEnrollment(id, status)
  \/ \E id \in EnrollmentIds : UpdateProgress(id, 100)
  \/ \E id \in EnrollmentIds : Unenroll(id)
  \/ GetStats
  \/ GetDashboardStats
  \/ GetQuickStats

SpecStats == Init /\ [][NextStats]_vars

\* Update requests on courses that have chapters: bodies with and without a
\* price, a duration, a slug and a status, valid and negative numbers.
DurationUpdates == {{}, {3}, {-1}}
UpdateSlugs == {<<>>, <<"a">>}
UpdateStatus == {{}, {"Published"}}
NextUpdate ==
  \/ \E price \in Prices : CreateCourse(price, TRUE)
  \/ \E c \in CourseIds : CreateChapter(c, TRUE) /\ nextId'.chapter <= ConcChapters
  \/ \E id \in CourseIds, prices \in PriceUpdates, durations \in DurationUpdates,
        text \in UpdateSlugs, statuses \in UpdateStatus :
       UpdateCourseBody(id, prices, durations, text, statuses, 1)

SpecUpdate == Init /\ [][NextUpdate]_vars

\* Progress rows against the three deletes of the content hierarchy.
NextSweep ==
  \/ \E price \in Prices : CreateCourse(price, TRUE) /\ nextId'.course <= ConcCourses
  \/ \E c \in CourseIds : CreateChapter(c, TRUE) /\ SmallCatalogue
  \/ \E ch \in LearnChapterIds : CreateLesson(ch, TRUE) /\ SmallCatalogue
  \/ \E u \in Users, c \in CourseIds : Enroll(u, c)
  \/ \E u \in Users, l \in LearnLessonIds, b \in BOOLEAN : SetCompletion(u, l, b)
  \/ \E id \in LearnLessonIds : DeleteLesson(id)
  \/ \E id \in LearnChapterIds : DeleteChapter(id)
  \/ \E id \in CourseIds : DeleteCourse(id)

SpecSweep == Init /\ [][NextSweep]_vars

\* Requests through the guard: every method, the mounted paths in both
\* spellings, callers without a session, with a user's and with an admin's.
Methods == {"GET", "POST", "DELETE"}
Spellings(path) == {path \o <<"/", "1">>, Respell(path) \o <<"/", "1">>}
NextGuard ==
  \/ \E method \in Methods, url \in Spellings(ApiProduct), caller \in Callers,
        aj \in ArcjetAnswers, id \in CourseIds :
       ProductRequest(method, url, caller, aj, id)
  \/ \E method \in Methods, url \in Spellings(ApiEnrollment), caller \in Callers,
        aj \in ArcjetAnswers, id \in CourseIds :
       EnrollmentRequest(method, url, caller, aj, id)
  \/ \E url \in Spellings(ApiStats), caller \in Callers, aj \in ArcjetAnswers :
       StatsRequest(url, caller, aj)

SpecGuard == Init /\ [][NextGuard]_vars

\* Overlapping deleteLesson requests: a chapter with lessons is built first,
\* then every process sends one delete request.
NextConcDelete ==
  \/ NoneStarted /\ \E price \in Prices : CreateCourse(price, TRUE) /\ nextId'.course <= ConcCourses
  \/ NoneStarted /\ \E c \in CourseIds : CreateChapter(c, TRUE) /\ nextId'.chapter <= ConcChapters
  \/ NoneStarted /\ \E ch \in ChapterIds : CreateLesson(ch, TRUE)
  \/ \E p \in Procs, id \in LessonIds : LessonDeleteBegin(p, id)
  \/ \E p \in Procs : LessonDeleteFind(p)
  \/ \E p \in Procs : LessonDeletePull(p)
  \/ \E p \in Procs : LessonDeleteHook(p)
  \/ \E p \in Procs : LessonDeleteRemove(p)
  \/ \E p \in Procs : LessonDeleteShift(p)

SpecConcDelete == Init /\ [][NextConcDelete]_vars

\* ---------------------------------------------------------------- properties
\* C1: after non-overlapping createChapter / deleteChapter requests the
\* positions of a course's chapters are exactly 1..N, and position order is
\* creation order (ids are handed out in creation order).
C1_ChapterPositions ==
  \A c \in CourseIds :
    LET S == {x \in DOMAIN chapters : chapters[x].course = c} IN
      /\ {chapters[x].position : x \in S} = 1..Cardinality(S)
      /\ \A x, y \in S : (x < y) <=> (chapters[x].position < chapters[y].position)

\* A chapter was deleted in front of two surviving chapters of one course.
C1_Witness ==
  /\ resp.op = "deleteChapter" /\ resp.status = 200
  /\ \E c \in DOMAIN courses :
       LET S == {x \in DOMAIN chapters : chapters[x].course = c} IN
         /\ Cardinality(S) >= 2
         /\ \A x \in S : x > resp.id

\* C2: after non-overlapping createLesson / deleteLesson requests the
\* positions of a chapter's lessons are exactly 1..N.
C2_LessonPositions ==
  \A ch \in ChapterIds :
    LET S == {x \in DOMAIN lessons : lessons[x].chapter = ch} IN
      {lessons[x].position : x \in S} = 1..Cardinality(S)

\* A lesson was deleted in front of two surviving lessons of one chapter.
C2_Witness ==
  /\ resp.op = "deleteLesson" /\ resp.status = 200
  /\ \E ch \in DOMAIN chapters :
       LET S == {x \in DOMAIN lessons : lessons[x].chapter = ch} IN
         /\ Cardinality(S) >= 2
         /\ \A x \in S : x > resp.id

\* C3: deleteLesson of lesson d at position p of chapter c lowers by one the
\* position of every other lesson of c above p, and leaves the lessons of c
\* below p and every lesson of every other chapter as they were.
C3_DeleteLessonShift ==
  [][\A d \in LessonIds :
       (/\ resp'.op = "deleteLesson" /\ resp'.status = 200 /\ resp'.id = d
        /\ d \in DOMAIN lessons /\ d \notin DOMAIN lessons')
       => \A l \in DOMAIN lessons \ {d} :
            /\ l \in DOMAIN lessons'
            /\ IF lessons[l].chapter # lessons[d].chapter
               THEN lessons'[l] = lessons[l]
               ELSE /\ lessons'[l].chapter = lessons[l].chapter
                    /\ lessons[l].position > lessons[d].position
                         => lessons'[l].position = lessons[l].position - 1
                    /\ lessons[l].position < lessons[d].position
                         => lessons'[l].position = lessons[l].position]_vars

\* The middle one of three lessons of the only chapter was deleted.
C3_Witness ==
  /\ resp.op = "deleteLesson" /\ resp.status = 200 /\ resp.id = 2
  /\ nextId.chapter = 1 /\ nextId.lesson = 3
  /\ DOMAIN lessons = {1, 3}
  /\ lessons[1].position = 1 /\ lessons[3].position = 2

\* C4: a successful deleteCourse(c) leaves no course c, no chapter of c and
\* no lesson of a chapter that belonged to c.
C4_DeleteCourseCascade ==
  [][\A c \in CourseIds :
       (/\ resp'.op = "deleteCourse" /\ resp'.status = 200 /\ resp'.id = c
        /\ c \in DOMAIN courses)
       => /\ c \notin DOMAIN courses'
          /\ \A x \in DOMAIN chapters' : chapters'[x].course # c
          /\ \A l \in DOMAIN lessons' :
               \A x \in DOMAIN chapters :
                 chapters[x].course = c => lessons'[l].chapter # x]_vars

\* The only course ever created was deleted after a lesson had been created
\* in it, and the collections are empty.
C4_Witness ==
  /\ resp.op = "deleteCourse" /\ resp.status = 200
  /\ nextId.course = 1 /\ nextId.lesson >= 1
  /\ courses = <<>> /\ chapters = <<>> /\ lessons = <<>>

HasEnrollment(u, c) ==
  \E e \in DOMAIN enrollments : enrollments[e].user = u /\ enrollments[e].course = c

\* C5 as stated: whenever an enrollment for (u, c) exists, enroll(u, c) is
\* answered 400 and changes neither the enrollments nor the user's list.
C5_AsStated ==
  [][\A u \in Users, c \in CourseIds :
       (HasEnrollment(u, c) /\ Enroll(u, c))
       => /\ resp'.status = 400
          /\ UNCHANGED <<enrollments, users>>]_vars

\* C5 amended: whenever an enrollment for (u, c) exists, enroll(u, c) creates
\* nothing; it is answered 400 while course c exists and 404 once the course
\* has been deleted.
C5_DuplicateEnrollRejected ==
  [][\A u \in Users, c \in CourseIds :
       (HasEnrollment(u, c) /\ Enroll(u, c))
       => /\ resp'.status = IF c \in DOMAIN courses THEN 400 ELSE 404
          /\ UNCHANGED <<enrollments, users>>]_vars

\* An enroll request was answered with the conflict error.
C5_Witness ==
  /\ resp.op = "enroll" /\ resp.status = 400
  /\ \E u \in Users, c \in DOMAIN courses : HasEnrollment(u, c)

Enrolled(u, l) ==
  /\ l \in DOMAIN lessons
  /\ lessons[l].chapter \in DOMAIN chapters
  /\ \E e \in DOMAIN enrollments :
       /\ enrollments[e].user = u
       /\ enrollments[e].course = chapters[lessons[l].chapter].course
       /\ enrollments[e].status \in {"active", "completed"}

\* C6: under any interleaving of overlapping enroll requests for the same
\* (user, course) pair, both passing the existence check before either inserts
\* included, at most one Enrollment row for the pair ever exists; a request
\* answered with success created a row of its own for the pair, and every other
\* request for an existing course is answered with the conflict error (400).
C6_ConcurrentEnroll ==
  /\ \A u \in Users, c \in CourseIds :
       Cardinality({e \in DOMAIN enrollments :
                      enrollments[e].user = u /\ enrollments[e].course = c}) <= 1
  /\ \A p \in Procs :
       (procs[p].op = "enroll" /\ procs[p].pc = "done" /\ procs[p].user # NoUser
          /\ procs[p].arg \in DOMAIN courses)
       => IF procs[p].status = 201
          THEN /\ procs[p].local \in DOMAIN enrollments
               /\ enrollments[procs[p].local].user = procs[p].user
               /\ enrollments[procs[p].local].course = procs[p].arg
               /\ \A q \in Procs \ {p} :
                    (procs[q].op = "enroll" /\ procs[q].pc = "done" /\ procs[q].status = 201)
                    => procs[q].local # procs[p].local
          ELSE procs[p].status = 400

\* Two requests for one pair have both passed the existence check; one
\* inserted the row and answered 201, the other was stopped by the unique
\* index (error code 11000) and answered 400.
C6_Witness ==
  \E p, q \in Procs :
    /\ p # q
    /\ procs[p].op = "enroll" /\ procs[q].op = "enroll"
    /\ procs[p].pc = "done" /\ procs[q].pc = "done"
    /\ procs[p].user = procs[q].user /\ procs[p].arg = procs[q].arg
    /\ procs[p].status = 201
    /\ procs[q].status = 400 /\ procs[q].local = 11000

\* C7: a progress row is created or modified only for a (user, lesson) whose
\* course the user is enrolled in (active or completed); setCompletion for an
\* existing lesson without such an enrollment is answered 403 and leaves the
\* progress rows and the lesson's and the user's reference lists unchanged.
C7_ProgressRequiresEnrollment ==
  [][/\ \A r \in DOMAIN progress' :
          (r \notin DOMAIN progress \/ progress'[r] # progress[r])
          => Enrolled(progress'[r].user, progress'[r].lesson)
     /\ resp'.op = "setCompletion" =>
        \A u \in Users, l \in DOMAIN lessons, b \in BOOLEAN :
          (/\ l \in DOMAIN lessons /\ lessons[l].chapter \in DOMAIN chapters
           /\ ~Enrolled(u, l)
           /\ SetCompletion(u, l, b))
          => /\ resp'.status = 403
             /\ UNCHANGED <<progress, lessons, users>>]_vars

\* A user holding only a non-qualifying enrollment was refused.
C7_Witness ==
  /\ resp.op = "setCompletion" /\ resp.status = 403
  /\ \E e \in DOMAIN enrollments : enrollments[e].status = "cancelled"
  /\ progress # <<>>

\* C8: in every reachable state, states reached by interleaving overlapping
\* setCompletion requests store operation by store operation included, there
\* is at most one LessonProgress row per (user, lesson) pair.
C8_OneRowPerUserLesson ==
  \A u \in Users, l \in LessonIds :
    Cardinality({r \in DOMAIN progress :
                   progress[r].user = u /\ progress[r].lesson = l}) <= 1

\* C9: the chapter rollup and the course rollup for user u report
\* totalLessons = the number of existing lessons in scope, completedLessons =
\* the number of those lessons for which u has a row with completed = true,
\* and completionPercentage = round(100 * completedLessons / totalLessons);
\* so 0 <= completedLessons <= totalLessons and 0 <= completionPercentage <= 100.
C9_Expected(u, scope, stats) ==
  LET done == {l \in scope : \E r \in DOMAIN progress :
                 progress[r].user = u /\ progress[r].lesson = l /\ progress[r].completed}
      total == Cardinality(scope)
      count == Cardinality(done)
  IN /\ stats.totalLessons = total
     /\ stats.completedLessons = count
     /\ total > 0 => stats.completionPercentage = (200 * count + total) \div (2 * total)
     /\ 0 <= stats.completedLessons /\ stats.completedLessons <= stats.totalLessons
     /\ 0 <= stats.completionPercentage /\ stats.completionPercentage <= 100

C9_RollupCounts ==
  [][(UNCHANGED <<db, procs>> /\ resp'.status = 200)
     => /\ resp'.op = "chapterProgress"
           => C9_Expected(resp'.user,
                          {l \in DOMAIN lessons : lessons[l].chapter = resp'.id},
                          resp'.stats)
        /\ resp'.op = "courseProgress"
           => /\ C9_Expected(resp'.user,
                    {l \in DOMAIN lessons :
                       /\ lessons[l].chapter \in DOMAIN chapters
                       /\ chapters[lessons[l].chapter].course = resp'.id},
                    resp'.stats.overall)
              /\ \A ch \in DOMAIN resp'.stats.chapters :
                   C9_Expected(resp'.user,
                     {l \in DOMAIN lessons : lessons[l].chapter = ch},
                     resp'.stats.chapters[ch])]_vars

\* C10: a rollup over a scope without lessons reports completionPercentage 0
\* (and not the NaN a division by zero would give).
C10_EmptyScopeIsZero ==
  /\ (resp.op = "chapterProgress" /\ resp.stats.totalLessons = 0)
       => resp.stats.completionPercentage = 0
  /\ resp.op = "courseProgress"
       => /\ resp.stats.overall.totalLessons = 0
               => resp.stats.overall.completionPercentage = 0
          /\ \A ch \in DOMAIN resp.stats.chapters :
               resp.stats.chapters[ch].totalLessons = 0
               => resp.stats.chapters[ch].completionPercentage = 0
  /\ (resp.op = "userProgress" /\ resp.status = 200)
       => \A e \in DOMAIN resp.stats :
            resp.stats[e].progress.totalLessons = 0
            => resp.stats[e].progress.completionPercentage = 0

\* The rollup of an existing chapter without lessons was read.
C10_Witness ==
  /\ resp.op = "chapterProgress"
  /\ resp.id \in DOMAIN chapters
  /\ \A l \in DOMAIN lessons : lessons[l].chapter # resp.id
  /\ resp.stats.totalLessons = 0

\* C19: createChapter for a course that does not exist and createLesson for a
\* chapter that does not exist are answered 404 and leave the Chapter, Lesson
\* and Course collections unchanged; a successful create gives the new child
\* position = (number of children the parent had before the call) + 1 and
\* appends its id to the parent's child list.
C19_CreateChild ==
  [][/\ \A c \in CourseIds :
          CreateChapter(c, TRUE)
          => IF c \notin DOMAIN courses
             THEN resp'.status = 404 /\ UNCHANGED <<chapters, lessons, courses>>
             ELSE /\ resp'.status = 201
                  /\ resp'.id \notin DOMAIN chapters
                  /\ DOMAIN chapters' = DOMAIN chapters \cup {resp'.id}
                  /\ chapters'[resp'.id].course = c
                  /\ chapters'[resp'.id].position
                       = Cardinality({x \in DOMAIN chapters : chapters[x].course = c}) + 1
                  /\ courses'[c].chapters = Append(courses[c].chapters, resp'.id)
     /\ \A ch \in ChapterIds :
          CreateLesson(ch, TRUE)
          => IF ch \notin DOMAIN chapters
             THEN resp'.status = 404 /\ UNCHANGED <<chapters, lessons, courses>>
             ELSE /\ resp'.status = 201
                  /\ resp'.id \notin DOMAIN lessons
                  /\ DOMAIN lessons' = DOMAIN lessons \cup {resp'.id}
                  /\ lessons'[resp'.id].chapter = ch
                  /\ lessons'[resp'.id].position
                       = Cardinality({x \in DOMAIN lessons : lessons[x].chapter = ch}) + 1
                  /\ chapters'[ch].lessons = Append(chapters[ch].lessons, resp'.id)]_vars

\* A lesson was created as the second one of its chapter, in a course that
\* holds two chapters, after a course had been deleted (so that creates for it
\* are answered 404).
C19_Witness ==
  /\ resp.op = "createLesson" /\ resp.status = 201
  /\ lessons[resp.id].position = 2
  /\ \E c \in DOMAIN courses : Len(courses[c].chapters) = 2
  /\ \E c \in CourseIds : c \notin DOMAIN courses /\ c <= nextId.course

\* C20: a stored-media delete that fails during deleteCourse, deleteChapter or
\* deleteLesson does not abort the request: it is still answered with success
\* and removes the same records as a request whose media deletes succeed
\* (the course with its chapters and lessons; the chapter with its lessons and
\* its reference; the lesson with its reference).
C20_MediaFailureIgnored ==
  [][/\ \A id \in DOMAIN courses :
          DeleteCourseMedia(id, FALSE)
          => /\ resp'.status = 200
             /\ DOMAIN courses' = DOMAIN courses \ {id}
             /\ DOMAIN chapters' = {x \in DOMAIN chapters : chapters[x].course # id}
             /\ DOMAIN lessons' = {x \in DOMAIN lessons :
                                     ~(/\ lessons[x].chapter \in DOMAIN chapters
                                       /\ chapters[lessons[x].chapter].course = id)}
     /\ \A id \in DOMAIN chapters :
          DeleteChapterMedia(id, FALSE)
          => /\ resp'.status = 200
             /\ DOMAIN courses' = DOMAIN courses
             /\ DOMAIN chapters' = DOMAIN chapters \ {id}
             /\ DOMAIN lessons' = {x \in DOMAIN lessons : lessons[x].chapter # id}
             /\ \A c \in DOMAIN courses' :
                  \A i \in 1..Len(courses'[c].chapters) : courses'[c].chapters[i] # id
     /\ \A id \in DOMAIN lessons :
          DeleteLessonMedia(id, FALSE)
          => /\ resp'.status = 200
             /\ DOMAIN courses' = DOMAIN courses
             /\ DOMAIN chapters' = DOMAIN chapters
             /\ DOMAIN lessons' = DOMAIN lessons \ {id}
             /\ \A ch \in DOMAIN chapters' :
                  \A i \in 1..Len(chapters'[ch].lessons) : chapters'[ch].lessons[i] # id]_vars

\* A course holding a chapter with a lesson was deleted while the media
\* delete failed and was only logged.
C20_Witness ==
  /\ resp.op = "deleteCourse" /\ resp.status = 200 /\ resp.media = "logged"
  /\ nextId.chapter >= 1 /\ nextId.lesson >= 1
  /\ chapters = <<>> /\ lessons = <<>>

C12_ProgressStored ==
  [][\A id \in DOMAIN enrollments, p \in ProgressInputs :
       (0 <= p /\ p <= 100 /\ UpdateProgress(id, p))
       => /\ resp'.status = 200
          /\ "progress" \in DOMAIN enrollments'[id]
          /\ enrollments'[id]["progress"] = p
          /\ IF p = 100
             THEN /\ enrollments'[id]["status"] = "completed"
                  /\ "completedAt" \in DOMAIN enrollments'[id]
             ELSE enrollments'[id]["status"] = enrollments[id]["status"]]_vars

\* C13: updateProgress with a progress below 0 or above 100 is answered 400
\* and leaves the enrollments unchanged.
C13_ProgressRangeRejected ==
  [][\A id \in EnrollmentIds, p \in ProgressInputs :
       ((p < 0 \/ p > 100) /\ UpdateProgress(id, p))
       => resp'.status = 400 /\ UNCHANGED enrollments]_vars

\* An out-of-range updateProgress was rejected while enrollments exist.
C13_Witness ==
  /\ resp.op = "updateProgress" /\ resp.status = 400
  /\ enrollments # <<>>

\* C14: checkEnrollment(u, c) reports isEnrolled = true exactly when an
\* Enrollment of (u, c) with status active or completed exists, and then
\* returns such a record; for a pending or cancelled enrollment, or none, it
\* reports false with a null record.
C14_CheckEnrollment ==
  [][(resp'.op = "checkEnrollment" /\ resp'.status = 200)
     => LET rows == {e \in DOMAIN enrollments' :
                       /\ enrollments'[e].user = resp'.user
                       /\ enrollments'[e].course = resp'.course
                       /\ enrollments'[e].status \in {"active", "completed"}}
        IN /\ resp'.isEnrolled <=> rows # {}
           /\ resp'.isEnrolled => resp'.id \in rows
           /\ ~resp'.isEnrolled => resp'.id = 0]_vars

\* A user whose enrollment in the course is pending or cancelled was told
\* that they are not enrolled.
C14_Witness ==
  /\ resp.op = "checkEnrollment" /\ resp.status = 200 /\ ~resp.isEnrolled
  /\ \E e \in DOMAIN enrollments :
       /\ enrollments[e].user = resp.user /\ enrollments[e].course = resp.course
       /\ enrollments[e].status \in {"pending", "cancelled"}

\* C15: unenroll of an existing enrollment removes the row and its id from the
\* owning user's enrollments list and leaves every LessonProgress row
\* unchanged, those of that user for lessons of that course included.
C15_UnenrollKeepsProgress ==
  [][\A id \in DOMAIN enrollments :
       Unenroll(id)
       => /\ resp'.status = 200
          /\ DOMAIN enrollments' = DOMAIN enrollments \ {id}
          /\ \A i \in 1..Len(users'[enrollments[id].user].enrollments) :
               users'[enrollments[id].user].enrollments[i] # id
          /\ progress' = progress]_vars

\* After an unenroll a progress row remains whose user no longer has any
\* enrollment.
C15_Witness ==
  /\ resp.op = "unenroll" /\ resp.status = 200
  /\ \E r \in DOMAIN progress :
       /\ users[progress[r].user].enrollments = <<>>
       /\ \A e \in DOMAIN enrollments : enrollments[e].user # progress[r].user

\* C16: after deleteLesson(l) succeeds no LessonProgress row with lesson = l
\* remains, for any user, and l is in no chapter's lessons list.
C16_DeleteLessonCleansUp ==
  [][\A l \in DOMAIN lessons :
       DeleteLesson(l)
       => /\ resp'.status = 200
          /\ l \notin DOMAIN lessons'
          /\ \A r \in DOMAIN progress' : progress'[r].lesson # l
          /\ \A ch \in DOMAIN chapters' :
               \A i \in 1..Len(chapters'[ch].lessons) : chapters'[ch].lessons[i] # l]_vars

\* A lesson that had progress rows was deleted and its rows went with it.
C16_Witness ==
  /\ resp.op = "deleteLesson" /\ resp.status = 200
  /\ Cardinality(DOMAIN progress) < nextId.progress
  /\ \A r \in DOMAIN progress : progress[r].lesson # resp.id

\* C17: no two courses ever have the same slug; createCourse, and updateCourse
\* changing the slug, whose normalized candidate slug is already used by
\* another course stores the suffixed slug (different from the candidate) and
\* succeeds, and fails (400, duplicate slug) exactly when the suffixed slug is
\* used by another course as well, and then no course is created or changed.
C17_UniqueSlugs ==
  [][/\ \A x, y \in DOMAIN courses' : x # y => courses'[x].slug # courses'[y].slug
     /\ \A text \in Titles, now \in Clock, price \in Prices :
          (/\ CreateCourseFrom(price, TRUE, text, "Draft", now)
           /\ \E x \in DOMAIN courses : courses[x].slug = Slugify(text))
          => IF \E x \in DOMAIN courses : courses[x].slug = Suffixed(Slugify(text), now)
             THEN resp'.status = 400 /\ UNCHANGED courses
             ELSE /\ resp'.status = 201
                  /\ DOMAIN courses' = DOMAIN courses \cup {resp'.id}
                  /\ courses'[resp'.id].slug = Suffixed(Slugify(text), now)
                  /\ courses'[resp'.id].slug # Slugify(text)
                  /\ \A x \in DOMAIN courses : courses'[x] = courses[x]
     /\ \A id \in DOMAIN courses, text \in SlugTexts, now \in Clock :
          (/\ UpdateCourse(id, {}, text, {}, now)
           /\ \E x \in DOMAIN courses \ {id} : courses[x].slug = Slugify(text))
          => IF \E x \in DOMAIN courses \ {id} :
                  courses[x].slug = Suffixed(Slugify(text), now)
             THEN resp'.status = 400 /\ UNCHANGED courses
             ELSE /\ resp'.status = 200
                  /\ courses'[id].slug = Suffixed(Slugify(text), now)
                  /\ \A x \in DOMAIN courses \ {id} : courses'[x] = courses[x]]_vars

\* A create was refused although its title is valid: its candidate slug and
\* the suffixed slug were both taken, one of them by a course that had itself
\* been stored under a suffixed slug.
C17_Witness ==
  /\ resp.op = "createCourse" /\ resp.status = 400
  /\ \E x, y \in DOMAIN courses, now \in Clock :
       x # y /\ courses[y].slug = Suffixed(courses[x].slug, now)

\* C18: a lookup by slug answered to a caller without a session, or without
\* an active enrollment in the course of that slug, carries a course only if
\* that course is Published (and is the course of the slug), and every lesson
\* in the answer carries _id, title and position and nothing else, so neither
\* thumbnailKey nor videoKey. Rows with status pending or cancelled do not
\* qualify.
C18_SlugLookupReduced ==
  [][\A u \in Users \cup {NoUser}, slug \in ViewSlugs :
       ( /\ GetBySlug(u, slug)
         /\ resp'.status = 200
         /\ \/ u = NoUser
            \/ \A c \in DOMAIN courses :
                 courses[c].slug = slug =>
                   ~\E e \in DOMAIN enrollments :
                      /\ enrollments[e].user = u
                      /\ enrollments[e].course = c
                      /\ enrollments[e].status = "active" )
       => /\ resp'.id # 0 =>
               /\ resp'.id \in DOMAIN courses
               /\ courses[resp'.id].slug = slug
               /\ courses[resp'.id].status = "Published"
          /\ resp'.id = 0 => DOMAIN resp'.lessons = {}
          /\ \A l \in DOMAIN resp'.lessons :
               /\ resp'.lessons[l] \subseteq {"_id", "title", "position"}
               /\ "thumbnailKey" \notin resp'.lessons[l]
               /\ "videoKey" \notin resp'.lessons[l]
          /\ \A c \in DOMAIN courses :
               (courses[c].slug = slug /\ courses[c].status # "Published")
                 => resp'.id = 0
  ]_vars

\* C18 witness: a published course with a lesson in it has been given to a
\* caller without a session or to a user whose enrollment was cancelled.
C18_Witness ==
  /\ resp.op = "getBySlug"
  /\ resp.status = 200
  /\ resp.id \in DOMAIN courses
  /\ DOMAIN resp.lessons # {}
  /\ \/ resp.user = NoUser
     \/ \E e \in DOMAIN enrollments :
          /\ enrollments[e].user = resp.user
          /\ enrollments[e].course = resp.id
          /\ enrollments[e].status = "cancelled"

\* C21: a create request that read its parent's child count before a sibling
\* was inserted still inserts, with the position that count gives, so two
\* siblings of one parent then hold the same position: the store has no
\* constraint on (parent, position) and the save is never rejected. This is
\* so for chapters of a course and for lessons of a chapter.
C21_StaleCountDuplicates ==
  [][\A p \in Procs :
       /\ ( /\ At(p, "createChapter", "save")
            /\ ChapterCreateSave(p)
            /\ Cardinality({x \in DOMAIN chapters :
                              chapters[x].course = procs[p].arg}) > procs[p].local )
          => /\ procs'[p].pc = "push"
             /\ procs'[p].local \in DOMAIN chapters' \ DOMAIN chapters
             /\ chapters'[procs'[p].local].position = procs[p].local + 1
             /\ \E x, y \in DOMAIN chapters' :
                  /\ x # y
                  /\ chapters'[x].course = chapters'[y].course
                  /\ chapters'[x].position = chapters'[y].position
       /\ ( /\ At(p, "createLesson", "save")
            /\ LessonCreateSave(p)
            /\ Cardinality({x \in DOMAIN lessons :
                              lessons[x].chapter = procs[p].arg}) > procs[p].local )
          => /\ procs'[p].pc = "push"
             /\ procs'[p].local \in DOMAIN lessons' \ DOMAIN lessons
             /\ lessons'[procs'[p].local].position = procs[p].local + 1
             /\ \E x, y \in DOMAIN lessons' :
                  /\ x # y
                  /\ lessons'[x].chapter = lessons'[y].chapter
                  /\ lessons'[x].position = lessons'[y].position
  ]_vars

\* C21 witness: both requests have answered 201, and their two chapters of one
\* course, or their two lessons of one chapter, hold the same position.
C21_Witness ==
  \E p, q \in Procs :
    /\ p # q
    /\ procs[p].pc = "done" /\ procs[q].pc = "done"
    /\ procs[p].status = 201 /\ procs[q].status = 201
    /\ procs[p].op = procs[q].op /\ procs[p].arg = procs[q].arg
    /\ \/ /\ procs[p].op = "createChapter"
          /\ procs[p].local \in DOMAIN chapters /\ procs[q].local \in DOMAIN chapters
          /\ chapters[procs[p].local].position = chapters[procs[q].local].position
       \/ /\ procs[p].op = "createLesson"
          /\ procs[p].local \in DOMAIN lessons /\ procs[q].local \in DOMAIN lessons
          /\ lessons[procs[p].local].position = lessons[procs[q].local].position

\* C22: while deleteCourse runs with no other writer in flight, in every
\* state between its store operations each existing lesson's chapter exists
\* and each existing chapter's course exists; a step that removes chapters of
\* the course finds no lesson of those chapters left, and the step that
\* removes the course record finds no chapter of the course left.
C22_CascadeChildrenFirst ==
  /\ [](/\ \A l \in DOMAIN lessons : lessons[l].chapter \in DOMAIN chapters
        /\ \A ch \in DOMAIN chapters : chapters[ch].course \in DOMAIN courses)
  /\ [][/\ \A ch \in DOMAIN chapters \ DOMAIN chapters' :
             ~\E l \in DOMAIN lessons : lessons[l].chapter = ch
        /\ \A c \in DOMAIN courses \ DOMAIN courses' :
             ~\E ch \in DOMAIN chapters : chapters[ch].course = c
       ]_vars

\* C22 witness: the cascade stands between the deletion of a chapter's lessons
\* and the deletion of the chapters: a chapter of the course has lost its
\* lessons, another chapter of the course still has one, and both chapters and
\* the course exist.
C22_Witness ==
  \E p \in Procs :
    /\ At(p, "deleteCourse", "lessons")
    /\ procs[p].arg \in DOMAIN courses
    /\ \E a, b \in DOMAIN chapters :
         /\ a # b
         /\ chapters[a].course = procs[p].arg /\ chapters[b].course = procs[p].arg
         /\ a \notin procs[p].local /\ b \in procs[p].local
         /\ chapters[a].lessons # <<>>
         /\ ~\E l \in DOMAIN lessons : lessons[l].chapter = a
         /\ \E l \in DOMAIN lessons : lessons[l].chapter = b

\* C23: in every state reached by non-overlapping chapter and lesson requests,
\* updateChapter and updateLesson included, the positions of a course's
\* chapters are exactly 1..N and the positions of a chapter's lessons are
\* exactly 1..N.
C23_UpdateKeepsContiguity ==
  /\ \A c \in CourseIds :
       LET S == {x \in DOMAIN chapters : chapters[x].course = c} IN
         {chapters[x].position : x \in S} = 1..Cardinality(S)
  /\ \A ch \in ChapterIds :
       LET S == {x \in DOMAIN lessons : lessons[x].chapter = ch} IN
         {lessons[x].position : x \in S} = 1..Cardinality(S)

\* C24: when the positions of a chapter's lessons are 1..N, deleteLesson's one
\* conditional bulk decrement leaves every surviving lesson of the chapter on
\* the position that deleteChapter's renumbering would give it: fetch the
\* survivors sorted by position and rewrite each as its index + 1.
C24_ShiftEqualsRenumber ==
  [][\A id \in DOMAIN lessons :
       LET ch == lessons[id].chapter
           all == {x \in DOMAIN lessons : lessons[x].chapter = ch}
           rest == Remove(lessons, {id})
           S == all \ {id}
           n == Cardinality(S)
       IN ( /\ DeleteLesson(id)
            /\ {lessons[x].position : x \in all} = 1..Cardinality(all) )
          => \A ord \in [1..n -> S] :
               ( /\ \A i, j \in 1..n : i # j => ord[i] # ord[j]
                 /\ \A i, j \in 1..n : i < j =>
                      rest[ord[i]].position <= rest[ord[j]].position )
               => \A x \in S :
                    /\ x \in DOMAIN lessons'
                    /\ lessons'[x].position = Renumber(rest, ord)[x].position
  ]_vars

\* C24 witness: of three lessons of one chapter the middle one was deleted;
\* the first kept position 1 and the last moved to position 2.
C24_Witness ==
  /\ resp.op = "deleteLesson" /\ resp.status = 200
  /\ \E a, b \in DOMAIN lessons :
       /\ a < resp.id /\ resp.id < b
       /\ lessons[a].chapter = lessons[b].chapter
       /\ lessons[a].position = 1 /\ lessons[b].position = 2
       /\ ~\E x \in DOMAIN lessons \ {a, b} : lessons[x].chapter = lessons[a].chapter

\* The sum of amount over the enrollments, among ids 1..n, whose status is
\* active or completed.
RECURSIVE RevenueUpTo(_)
RevenueUpTo(n) ==
  IF n = 0 THEN 0
  ELSE RevenueUpTo(n - 1) +
       (IF n \in DOMAIN enrollments /\ enrollments[n].status \in {"active", "completed"}
        THEN enrollments[n].amount ELSE 0)

C27_ReferenceListsExact ==
  /\ \A c \in DOMAIN courses :
       LET list == courses[c].chapters IN
         /\ {list[i] : i \in 1..Len(list)} =
              {x \in DOMAIN chapters : chapters[x].course = c}
         /\ \A i, j \in 1..Len(list) : i # j => list[i] # list[j]
  /\ \A ch \in DOMAIN chapters :
       LET list == chapters[ch].lessons IN
         /\ {list[i] : i \in 1..Len(list)} =
              {x \in DOMAIN lessons : lessons[x].chapter = ch}
         /\ \A i, j \in 1..Len(list) : i # j => list[i] # list[j]

\* C27 witness: after a delete, the only course lists one chapter though two
\* were created, and that chapter lists one lesson while a lesson created
\* before it is gone.
C27_Witness ==
  /\ nextId.course = 1 /\ 1 \in DOMAIN courses
  /\ Len(courses[1].chapters) = 1
  /\ nextId.chapter >= 2
  /\ \E ch \in DOMAIN chapters :
       /\ courses[1].chapters = <<ch>>
       /\ Len(chapters[ch].lessons) = 1
       /\ \E l \in 1..nextId.lesson :
            /\ l \notin DOMAIN lessons
            /\ l < chapters[ch].lessons[1]
  /\ resp.op \in {"deleteChapter", "deleteLesson"} /\ resp.status = 200

\* C28: in every state between requests, every LessonProgress row refers to a
\* lesson that exists, after deleteLesson and also after deleteChapter and
\* deleteCourse.
C28_ProgressRowsHaveLessons ==
  \A r \in DOMAIN progress : progress[r].lesson \in DOMAIN lessons

\* C29: a request routed to the product routes with a method other than GET,
\* or to the stats routes, from a caller without a session or whose role is
\* not admin, and a request routed to the enrollment routes from a caller
\* without a session, is answered 401 by the guard and changes no stored
\* state.
C29_GuardRejects ==
  [][\A caller \in Callers, aj \in ArcjetAnswers :
       LET notAdmin == caller.user = NoUser \/ caller.role # "admin"
           refused == /\ resp'.op = "guard" /\ resp'.status = 401
                      /\ UNCHANGED <<db, nextId>>
       IN /\ \A method \in Methods \ {"GET"}, url \in Spellings(ApiProduct),
                id \in CourseIds :
               (notAdmin /\ ProductRequest(method, url, caller, aj, id)) => refused
          /\ \A url \in Spellings(ApiStats) :
               (notAdmin /\ StatsRequest(url, caller, aj)) => refused
          /\ \A method \in Methods, url \in Spellings(ApiEnrollment),
                id \in CourseIds :
               (caller.user = NoUser /\ EnrollmentRequest(method, url, caller, aj, id))
                 => refused
  ]_vars

\* C30: once two overlapping deleteLesson requests for two different lessons
\* of one chapter have both been answered 200, the positions of the chapter's
\* surviving lessons are exactly 1..N, whatever the interleaving of their
\* store operations was.
C30_ConcurrentDeleteContiguous ==
  \A p, q \in Procs :
    ( /\ p # q
      /\ procs[p].op = "deleteLesson" /\ procs[q].op = "deleteLesson"
      /\ procs[p].pc = "done" /\ procs[q].pc = "done"
      /\ procs[p].status = 200 /\ procs[q].status = 200
      /\ procs[p].arg # procs[q].arg
      /\ procs[p].local.chapter = procs[q].local.chapter )
    => LET ch == procs[p].local.chapter
           S == {x \in DOMAIN lessons : lessons[x].chapter = ch} IN
           {lessons[x].position : x \in S} = 1..Cardinality(S)

====
